---- MODULE Spec2Model ----
(***************************************************************************)
(* Model of the money-market-fund optimizer: the tax-rate resolver, the    *)
(* tax-equivalent-yield calculator (frontend TaxCalculator, backend        *)
(* tax-engine and the docs/ deployment copy) and the fund categorizer.     *)
(*                                                                         *)
(* Numbers.  JavaScript numbers are modelled exactly, as integers in a     *)
(* fixed unit or as reduced fractions:                                     *)
(*   - a tax rate r is the integer r * RateUnit (0.24 is 240);             *)
(*   - an effective tax rate e is the integer e * EffUnit (0.27572 is      *)
(*     275720), EffUnit = RateUnit * RateUnit, so that the product         *)
(*     stateRate * (1 - federalRate) is exact;                             *)
(*   - a yield is in hundredths of a percentage point (4.52% is 452);      *)
(*   - a quotient is a reduced fraction [num, den] with den > 0.           *)
(* Floating-point rounding is not modelled.                                *)
(***************************************************************************)
EXTENDS Integers, Sequences, FiniteSets, TLC

VARIABLES
    userProfile,    \* the profile passed to calculateAllFunds
    funds,          \* the fund array passed to calculateAllFunds
    results,        \* outcome of TaxCalculator.calculateAllFunds (frontend)
    resultOrder,    \* ghost: results.value[i] was computed from funds[resultOrder[i]]
    engineResults,  \* outcome of tax-engine calculateAllFunds (backend)
    engineOrder,    \* ghost: the same for engineResults
    rateArgs,       \* arguments of a single call of a rate function
    rateRet,        \* which rate function was called, and its outcome
    row,            \* the CSV row passed to categorizeFund
    categorized,    \* outcome of categorizeFund(row)
    transformed,    \* outcome of transformRowToFund(row)
    line,           \* the line passed to parseCSVLine
    fields,         \* outcome of parseCSVLine(line)
    csvText,        \* the text passed to parseCSV
    parsed,         \* outcome of parseCSV(csvText)
    dataPoints,     \* the chart data points passed to aggregateChartData
    aggregated,     \* outcome of aggregateChartData(dataPoints)
    topFund,        \* the result passed to getRecommendationExplanation
    explanation,    \* which copy of getRecommendationExplanation was called, and its outcome
    csvList,        \* the array of {name, date} passed to sortCsvFilesByDate
    heap,           \* the arrays and objects that exist, by reference
    calls,          \* the calls made so far: function, arguments, outcome
    chartRows,      \* the parsed CSV rows passed to transformRowsForChart
    chartDate,      \* the snapshot date passed with them
    chartData,      \* outcome of transformRowsForChart(chartRows, chartDate)
    chartSeries,    \* outcome of aggregateChartData on those data points
    app,            \* the state object of the app: funds, userProfile, calculatedResults, sortColumn, sortDirection
    tableRows,      \* the rows of the results table; the first row is marked top-result
    loadsInFlight,  \* the calls of loadFundsData that have not returned yet
    fundDataCache,  \* the cache of the server: data (a scraped batch, by number) and timestamp
    clock,          \* Date.now() of the server, in milliseconds
    requests,       \* the requests received: route, position in getFundData, response
    scrapeCount,    \* the calls of scraper.scrapeFunds so far; call n returns batch n
    dbRows          \* the rows of fund_yields (each differs from the others in batch and fund)

calcVars == <<userProfile, funds, results, resultOrder, engineResults, engineOrder>>

rateVars == <<rateArgs, rateRet>>

catVars == <<row, categorized>>

csvVars == <<line, fields, csvText, parsed>>

chartVars == <<dataPoints, aggregated>>

explVars == <<topFund, explanation>>

pureVars == <<csvList, heap, calls>>

rowsVars == <<chartRows, chartDate, chartData, chartSeries>>

appVars == <<app, tableRows, loadsInFlight>>

serverVars == <<fundDataCache, clock, requests, scrapeCount, dbRows>>

moreVars == <<pureVars, rowsVars, appVars, serverVars>>

notPureVars == <<rowsVars, appVars, serverVars>>

notRowsVars == <<pureVars, appVars, serverVars>>

notAppVars == <<pureVars, rowsVars, serverVars>>

notServerVars == <<pureVars, rowsVars, appVars>>

utilVars == <<transformed, csvVars, chartVars, explVars, moreVars>>

vars == <<calcVars, rateVars, catVars, utilVars>>

(***************************************************************************)
(* Bounds and units                                                        *)
(***************************************************************************)
MaxFunds == 3

RateUnit == 1000

EffUnit == RateUnit * RateUnit

\* `Infinity`, the max of the last bracket (no code reads a bracket's max)
Infinity == 2147483647

(***************************************************************************)
(* Outcomes of a call                                                      *)
(***************************************************************************)
NotCalled == [kind |-> "none"]

Returns(v) == [kind |-> "return", value |-> v]

\* a TypeError propagating out of the call
Throws == [kind |-> "throw"]

\* JavaScript null
Null == [kind |-> "null"]

(***************************************************************************)
(* Exact arithmetic on fractions                                           *)
(***************************************************************************)
Abs(n) == IF n < 0 THEN -n ELSE n

RECURSIVE Gcd(_, _)
Gcd(a, b) == IF b = 0 THEN a ELSE Gcd(b, a % b)

\* n / d for d > 0, in lowest terms
Rat(n, d) ==
    LET g == Gcd(Abs(n), d)
    IN  [num |-> n \div g, den |-> d \div g]

\* a * b, reducing across before multiplying
RatMul(a, b) ==
    LET g1 == Gcd(Abs(a.num), b.den)
        g2 == Gcd(Abs(b.num), a.den)
    IN  Rat((a.num \div g1) * (b.num \div g2), (a.den \div g2) * (b.den \div g1))

\* a < b, by comparing integer parts and then the reciprocals of the
\* fractional parts (no cross product is formed)
RECURSIVE RatLess(_, _)
RatLess(a, b) ==
    LET qa == a.num \div a.den
        qb == b.num \div b.den
        ra == a.num % a.den
        rb == b.num % b.den
    IN  IF qa # qb THEN qa < qb
        ELSE IF rb = 0 THEN FALSE
        ELSE IF ra = 0 THEN TRUE
        ELSE RatLess([num |-> b.den, den |-> rb], [num |-> a.den, den |-> ra])

(***************************************************************************)
(* Static tables                                                           *)
(***************************************************************************)
\* frontend TaxCalculator (public/js/tax-calculator.js)
TAX_BRACKETS_2024 ==
    [single |-> << [min |-> 0,      max |-> 11600,    rate |-> 100],
                   [min |-> 11600,  max |-> 47150,    rate |-> 120],
                   [min |-> 47150,  max |-> 100525,   rate |-> 220],
                   [min |-> 100525, max |-> 191950,   rate |-> 240],
                   [min |-> 191950, max |-> 243725,   rate |-> 320],
                   [min |-> 243725, max |-> 609350,   rate |-> 350],
                   [min |-> 609350, max |-> Infinity, rate |-> 370] >>,
     married |-> << [min |-> 0,      max |-> 23200,    rate |-> 100],
                    [min |-> 23200,  max |-> 94300,    rate |-> 120],
                    [min |-> 94300,  max |-> 201050,   rate |-> 220],
                    [min |-> 201050, max |-> 383900,   rate |-> 240],
                    [min |-> 383900, max |-> 487450,   rate |-> 320],
                    [min |-> 487450, max |-> 731200,   rate |-> 350],
                    [min |-> 731200, max |-> Infinity, rate |-> 370] >>,
     head |-> << [min |-> 0,      max |-> 16550,    rate |-> 100],
                 [min |-> 16550,  max |-> 63100,    rate |-> 120],
                 [min |-> 63100,  max |-> 100500,   rate |-> 220],
                 [min |-> 100500, max |-> 191950,   rate |-> 240],
                 [min |-> 191950, max |-> 243700,   rate |-> 320],
                 [min |-> 243700, max |-> 609350,   rate |-> 350],
                 [min |-> 609350, max |-> Infinity, rate |-> 370] >>]

STATE_TAX_RATES ==
    [AL |-> 50, CA |-> 133, CO |-> 44, CT |-> 69, FL |-> 0, GA |-> 58,
     IL |-> 49, MA |-> 50, MO |-> 47, NY |-> 109, NC |-> 45, OH |-> 39,
     PA |-> 31, TX |-> 0, VA |-> 58, WA |-> 0]

TAX_TREATMENT ==
    [taxable |-> [federalTaxable |-> TRUE, stateTaxable |-> TRUE],
     treasury |-> [federalTaxable |-> TRUE, stateTaxable |-> FALSE],
     municipal |-> [federalTaxable |-> FALSE, stateTaxable |-> TRUE],
     sweep |-> [federalTaxable |-> TRUE, stateTaxable |-> TRUE],
     etf |-> [federalTaxable |-> TRUE, stateTaxable |-> TRUE]]
    @@ ("state-municipal" :> [federalTaxable |-> FALSE, stateTaxable |-> FALSE])

\* backend tax-engine (src/tax-engine.js)
Engine_TAX_BRACKETS_2024 ==
    [single |-> << [min |-> 0,      max |-> 11600,    rate |-> 100],
                   [min |-> 11600,  max |-> 47150,    rate |-> 120],
                   [min |-> 47150,  max |-> 100525,   rate |-> 220],
                   [min |-> 100525, max |-> 191950,   rate |-> 240],
                   [min |-> 191950, max |-> 243725,   rate |-> 320],
                   [min |-> 243725, max |-> 609350,   rate |-> 350],
                   [min |-> 609350, max |-> Infinity, rate |-> 370] >>,
     married |-> << [min |-> 0,      max |-> 23200,    rate |-> 100],
                    [min |-> 23200,  max |-> 94300,    rate |-> 120],
                    [min |-> 94300,  max |-> 201050,   rate |-> 220],
                    [min |-> 201050, max |-> 383900,   rate |-> 240],
                    [min |-> 383900, max |-> 487450,   rate |-> 320],
                    [min |-> 487450, max |-> 731200,   rate |-> 350],
                    [min |-> 731200, max |-> Infinity, rate |-> 370] >>,
     head |-> << [min |-> 0,      max |-> 16550,    rate |-> 100],
                 [min |-> 16550,  max |-> 63100,    rate |-> 120],
                 [min |-> 63100,  max |-> 100500,   rate |-> 220],
                 [min |-> 100500, max |-> 191950,   rate |-> 240],
                 [min |-> 191950, max |-> 243700,   rate |-> 320],
                 [min |-> 243700, max |-> 609350,   rate |-> 350],
                 [min |-> 609350, max |-> Infinity, rate |-> 370] >>]

Engine_STATE_TAX_RATES ==
    [AL |-> 50, CA |-> 133, CO |-> 44, CT |-> 69, FL |-> 0, GA |-> 58,
     IL |-> 49, MA |-> 50, MO |-> 47, NY |-> 109, NC |-> 45, OH |-> 39,
     PA |-> 31, TX |-> 0, VA |-> 58, WA |-> 0]

Engine_TAX_TREATMENT ==
    [taxable |-> [federalTaxable |-> TRUE, stateTaxable |-> TRUE],
     treasury |-> [federalTaxable |-> TRUE, stateTaxable |-> FALSE],
     municipal |-> [federalTaxable |-> FALSE, stateTaxable |-> TRUE]]
    @@ ("state-municipal" :> [federalTaxable |-> FALSE, stateTaxable |-> FALSE])

\* docs/ deployment copy (docs/js/tax-calculator.js)
Docs_TAX_BRACKETS_2024 ==
    [single |-> << [min |-> 0,      max |-> 11600,    rate |-> 100],
                   [min |-> 11600,  max |-> 47150,    rate |-> 120],
                   [min |-> 47150,  max |-> 100525,   rate |-> 220],
                   [min |-> 100525, max |-> 191950,   rate |-> 240],
                   [min |-> 191950, max |-> 243725,   rate |-> 320],
                   [min |-> 243725, max |-> 609350,   rate |-> 350],
                   [min |-> 609350, max |-> Infinity, rate |-> 370] >>,
     married |-> << [min |-> 0,      max |-> 23200,    rate |-> 100],
                    [min |-> 23200,  max |-> 94300,    rate |-> 120],
                    [min |-> 94300,  max |-> 201050,   rate |-> 220],
                    [min |-> 201050, max |-> 383900,   rate |-> 240],
                    [min |-> 383900, max |-> 487450,   rate |-> 320],
                    [min |-> 487450, max |-> 731200,   rate |-> 350],
                    [min |-> 731200, max |-> Infinity, rate |-> 370] >>]

Docs_STATE_TAX_RATES ==
    [MO |-> 48, CA |-> 133, NY |-> 88, FL |-> 0, TX |-> 0, WA |-> 0]

(***************************************************************************)
(* Property lookup on an object literal                                    *)
(***************************************************************************)
\* Names that every object literal inherits from Object.prototype: table[k]
\* for such a k is a built-in function or object, which is truthy, so that
\* `table[k] || fallback` does not take the fallback.
ObjectPrototypeProps ==
    {"constructor", "toString", "valueOf", "hasOwnProperty", "__proto__"}

\* table[key] is an own entry of the table
HasOwn(table, key) == key \in DOMAIN table

\* table[key] is an inherited member of Object.prototype
Inherits(table, key) == ~HasOwn(table, key) /\ key \in ObjectPrototypeProps

(***************************************************************************)
(* Tax-rate resolver                                                       *)
(***************************************************************************)
\* mutant of bracketScan: the loop compares income with the bracket's max
RECURSIVE bracketScan_byMax(_, _, _)
bracketScan_byMax(brackets, income, i) ==
    IF i < 1 THEN brackets[1].rate
    ELSE IF income > brackets[i].max THEN brackets[i].rate
    ELSE bracketScan_byMax(brackets, income, i - 1)

\* mutant of bracketScan: the loop returns at the first bracket, from the
\* top, whose min is above the income
RECURSIVE bracketScan_below(_, _, _)
bracketScan_below(brackets, income, i) ==
    IF i < 1 THEN brackets[1].rate
    ELSE IF income < brackets[i].min THEN brackets[i].rate
    ELSE bracketScan_below(brackets, income, i - 1)

\* the loop `for (i = brackets.length - 1; i >= 0; i--) if (income >
\* brackets[i].min) return brackets[i].rate;` followed by `return
\* brackets[0].rate` (sequences are 1-based here)
RECURSIVE bracketScan(_, _, _)
bracketScan(brackets, income, i) ==
    IF i < 1 THEN brackets[1].rate
    ELSE IF income > brackets[i].min THEN brackets[i].rate
    ELSE bracketScan(brackets, income, i - 1)

\* frontend.  An inherited name gives `brackets` a built-in whose elements
\* are undefined: reading .min or .rate of undefined throws a TypeError.
calculateFederalMarginalRate(income, filingStatus) ==
    IF HasOwn(TAX_BRACKETS_2024, filingStatus)
    THEN Returns(bracketScan(TAX_BRACKETS_2024[filingStatus], income,
                             Len(TAX_BRACKETS_2024[filingStatus])))
    ELSE IF Inherits(TAX_BRACKETS_2024, filingStatus) THEN Throws
    ELSE Returns(bracketScan(TAX_BRACKETS_2024.single, income,
                             Len(TAX_BRACKETS_2024.single)))

\* `STATE_TAX_RATES[state] || 0`; state is a two-letter code, which is never
\* an inherited name
calculateStateMarginalRate(state) ==
    IF HasOwn(STATE_TAX_RATES, state) THEN STATE_TAX_RATES[state] ELSE 0

\* `TAX_TREATMENT[category] || TAX_TREATMENT.taxable`; the members
\* federalTaxable and stateTaxable of an inherited built-in are undefined,
\* which is falsy
treatment(category) ==
    IF HasOwn(TAX_TREATMENT, category) THEN TAX_TREATMENT[category]
    ELSE IF Inherits(TAX_TREATMENT, category)
    THEN [federalTaxable |-> FALSE, stateTaxable |-> FALSE]
    ELSE TAX_TREATMENT.taxable

\* rates in RateUnit, result in EffUnit
getEffectiveTaxRate(category, federalRate, stateRate) ==
    LET t == treatment(category)
        federalPortion == IF t.federalTaxable THEN federalRate * RateUnit ELSE 0
        statePortion ==
            IF t.stateTaxable
            THEN IF t.federalTaxable
                 THEN stateRate * (RateUnit - federalRate)
                 ELSE stateRate * RateUnit
            ELSE 0
    IN  federalPortion + statePortion

\* backend
RECURSIVE Engine_bracketScan(_, _, _)
Engine_bracketScan(brackets, income, i) ==
    IF i < 1 THEN brackets[1].rate
    ELSE IF income > brackets[i].min THEN brackets[i].rate
    ELSE Engine_bracketScan(brackets, income, i - 1)

Engine_calculateFederalMarginalRate(income, filingStatus) ==
    IF HasOwn(Engine_TAX_BRACKETS_2024, filingStatus)
    THEN Returns(Engine_bracketScan(Engine_TAX_BRACKETS_2024[filingStatus], income,
                                    Len(Engine_TAX_BRACKETS_2024[filingStatus])))
    ELSE IF Inherits(Engine_TAX_BRACKETS_2024, filingStatus) THEN Throws
    ELSE Returns(Engine_bracketScan(Engine_TAX_BRACKETS_2024.single, income,
                                    Len(Engine_TAX_BRACKETS_2024.single)))

Engine_calculateStateMarginalRate(state) ==
    IF HasOwn(Engine_STATE_TAX_RATES, state) THEN Engine_STATE_TAX_RATES[state] ELSE 0

Engine_treatment(category) ==
    IF HasOwn(Engine_TAX_TREATMENT, category) THEN Engine_TAX_TREATMENT[category]
    ELSE IF Inherits(Engine_TAX_TREATMENT, category)
    THEN [federalTaxable |-> FALSE, stateTaxable |-> FALSE]
    ELSE Engine_TAX_TREATMENT.taxable

Engine_getEffectiveTaxRate(category, federalRate, stateRate) ==
    LET t == Engine_treatment(category)
        federalPortion == IF t.federalTaxable THEN federalRate * RateUnit ELSE 0
        statePortion ==
            IF t.stateTaxable
            THEN IF t.federalTaxable
                 THEN stateRate * (RateUnit - federalRate)
                 ELSE stateRate * RateUnit
            ELSE 0
    IN  federalPortion + statePortion

\* docs/ copy: the loop compares with >=
RECURSIVE Docs_bracketScan(_, _, _)
Docs_bracketScan(brackets, income, i) ==
    IF i < 1 THEN brackets[1].rate
    ELSE IF income >= brackets[i].min THEN brackets[i].rate
    ELSE Docs_bracketScan(brackets, income, i - 1)

Docs_calculateFederalMarginalRate(income, filingStatus) ==
    IF HasOwn(Docs_TAX_BRACKETS_2024, filingStatus)
    THEN Returns(Docs_bracketScan(Docs_TAX_BRACKETS_2024[filingStatus], income,
                                  Len(Docs_TAX_BRACKETS_2024[filingStatus])))
    ELSE IF Inherits(Docs_TAX_BRACKETS_2024, filingStatus) THEN Throws
    ELSE Returns(Docs_bracketScan(Docs_TAX_BRACKETS_2024.single, income,
                                  Len(Docs_TAX_BRACKETS_2024.single)))

Docs_calculateStateMarginalRate(state) ==
    IF HasOwn(Docs_STATE_TAX_RATES, state) THEN Docs_STATE_TAX_RATES[state] ELSE 0

(***************************************************************************)
(* Tax-equivalent-yield calculator                                         *)
(***************************************************************************)
\* the categories for which the frontend applies no division
taxableCategories == {"taxable", "sweep", "etf"}

\* mutant of taxEquivalentYield: municipal is listed among the categories
\* that get no division
taxEquivalentYield_municipalTaxable(category, netYield, effectiveTaxRate) ==
    IF category \in taxableCategories \cup {"municipal"} THEN Rat(netYield, 1)
    ELSE IF effectiveTaxRate < EffUnit
    THEN Rat(netYield * EffUnit, EffUnit - effectiveTaxRate)
    ELSE Rat(netYield, 1)

\* mutant of taxEquivalentYield: only 'taxable' gets no division
taxEquivalentYield_onlyTaxable(category, netYield, effectiveTaxRate) ==
    IF category = "taxable" THEN Rat(netYield, 1)
    ELSE IF effectiveTaxRate < EffUnit
    THEN Rat(netYield * EffUnit, EffUnit - effectiveTaxRate)
    ELSE Rat(netYield, 1)

\* frontend: the branch that sets taxEquivalentYield
taxEquivalentYield(category, netYield, effectiveTaxRate) ==
    IF category \in taxableCategories THEN Rat(netYield, 1)
    ELSE IF effectiveTaxRate < EffUnit
    THEN Rat(netYield * EffUnit, EffUnit - effectiveTaxRate)
    ELSE Rat(netYield, 1)

\* 10000 * (taxEquivalentYield / 100), in dollars; a yield y here is y / 100 percent
annualReturn(tey) == RatMul(Rat(10000, 1), RatMul(RatMul(tey, Rat(1, 100)), Rat(1, 100)))

\* mutant of netYieldOf: the net yield is floored at zero
netYieldOf_clamped(fund) ==
    IF fund.grossYield - fund.expenseRatio < 0 THEN 0
    ELSE fund.grossYield - fund.expenseRatio

\* fund.grossYield - fund.expenseRatio (the frontend and the backend alike)
netYieldOf(fund) == fund.grossYield - fund.expenseRatio

calculateTaxEquivalentYield(fund, profile) ==
    LET federal == calculateFederalMarginalRate(profile.income, profile.filingStatus)
    IN  IF federal.kind = "throw" THEN Throws
        ELSE
          LET federalRate == federal.value
              stateRate == calculateStateMarginalRate(profile.state)
              netYield == netYieldOf(fund)
              effectiveTaxRate ==
                  getEffectiveTaxRate(fund.category, federalRate, stateRate)
              tey == taxEquivalentYield(fund.category, netYield, effectiveTaxRate)
          IN  Returns([fundName |-> fund.fundName,
                       symbol |-> fund.symbol,
                       category |-> fund.category,
                       grossYield |-> fund.grossYield,
                       expenseRatio |-> fund.expenseRatio,
                       netYield |-> netYield,
                       effectiveTaxRate |-> effectiveTaxRate,
                       taxEquivalentYield |-> tey,
                       annualReturn |-> annualReturn(tey),
                       federalRate |-> federalRate,
                       stateRate |-> stateRate])

\* backend: only 'taxable' is exempt from the division
Engine_taxEquivalentYield(category, netYield, effectiveTaxRate) ==
    IF category = "taxable" THEN Rat(netYield, 1)
    ELSE IF effectiveTaxRate < EffUnit
    THEN Rat(netYield * EffUnit, EffUnit - effectiveTaxRate)
    ELSE Rat(netYield, 1)

Engine_calculateTaxEquivalentYield(fund, profile) ==
    LET federal ==
            Engine_calculateFederalMarginalRate(profile.income, profile.filingStatus)
    IN  IF federal.kind = "throw" THEN Throws
        ELSE
          LET federalRate == federal.value
              stateRate == Engine_calculateStateMarginalRate(profile.state)
              netYield == netYieldOf(fund)
              effectiveTaxRate ==
                  Engine_getEffectiveTaxRate(fund.category, federalRate, stateRate)
              tey == Engine_taxEquivalentYield(fund.category, netYield, effectiveTaxRate)
          IN  Returns([fundName |-> fund.fundName,
                       symbol |-> fund.symbol,
                       category |-> fund.category,
                       grossYield |-> fund.grossYield,
                       expenseRatio |-> fund.expenseRatio,
                       netYield |-> netYield,
                       effectiveTaxRate |-> effectiveTaxRate,
                       taxEquivalentYield |-> tey,
                       annualReturn |-> annualReturn(tey),
                       federalRate |-> federalRate,
                       stateRate |-> stateRate])

\* the comparator (a, b) => b.taxEquivalentYield - a.taxEquivalentYield, by
\* sign; it is the same in the frontend and in the backend
compareFn(a, b) ==
    IF RatLess(a.taxEquivalentYield, b.taxEquivalentYield) THEN 1
    ELSE IF RatLess(b.taxEquivalentYield, a.taxEquivalentYield) THEN -1
    ELSE 0

\* mutant of sortInsert: an unstable sort, which also moves an element in
\* front of the elements it ties with
RECURSIVE sortInsert_unstable(_, _, _)
sortInsert_unstable(order, rs, x) ==
    IF order = << >> THEN << x >>
    ELSE LET last == order[Len(order)]
         IN  IF compareFn(rs[last], rs[x]) >= 0
             THEN Append(sortInsert_unstable(SubSeq(order, 1, Len(order) - 1), rs, x),
                         last)
             ELSE Append(order, x)

\* results.sort(compareFn); Array.prototype.sort is stable.  The order (a
\* sequence of indices into rs) after inserting index x, which moves in
\* front of exactly the elements the comparator places after it
RECURSIVE sortInsert(_, _, _)
sortInsert(order, rs, x) ==
    IF order = << >> THEN << x >>
    ELSE LET last == order[Len(order)]
         IN  IF compareFn(rs[last], rs[x]) > 0
             THEN Append(sortInsert(SubSeq(order, 1, Len(order) - 1), rs, x), last)
             ELSE Append(order, x)

\* the order of rs[1..n] after the sort
RECURSIVE sortOrder(_, _)
sortOrder(rs, n) ==
    IF n = 0 THEN << >>
    ELSE sortInsert(sortOrder(rs, n - 1), rs, n)

\* frontend calculateAllFunds: [out, order]; out is the outcome, order the
\* index in fundList of each returned result
calculateAllFunds(fundList, profile) ==
    LET mapped == [i \in 1..Len(fundList) |->
                      calculateTaxEquivalentYield(fundList[i], profile)]
    IN  IF \E i \in 1..Len(fundList) : mapped[i].kind = "throw"
        THEN [out |-> Throws, order |-> << >>]
        ELSE LET rs == [i \in 1..Len(fundList) |-> mapped[i].value]
                 order == sortOrder(rs, Len(rs))
             IN  [out |-> Returns([i \in 1..Len(rs) |-> rs[order[i]]]),
                  order |-> order]

Engine_calculateAllFunds(fundList, profile) ==
    LET mapped == [i \in 1..Len(fundList) |->
                      Engine_calculateTaxEquivalentYield(fundList[i], profile)]
    IN  IF \E i \in 1..Len(fundList) : mapped[i].kind = "throw"
        THEN [out |-> Throws, order |-> << >>]
        ELSE LET rs == [i \in 1..Len(fundList) |-> mapped[i].value]
                 order == sortOrder(rs, Len(rs))
             IN  [out |-> Returns([i \in 1..Len(rs) |-> rs[order[i]]]),
                  order |-> order]

(***************************************************************************)
(* Inputs                                                                  *)
(***************************************************************************)
\* state.userProfile as the app constructs it
DefaultProfile == [income |-> 200000, filingStatus |-> "single", state |-> "MO"]

\* bracket bounds of the three tables, their neighbours, and the default
Incomes ==
    {0, 1, 11600, 11601, 16550, 23200, 23201, 47150, 100525, 191950, 200000,
     243725, 609350, 609351, 731200, 731201}

\* the table's keys, a spelling that is no key, and an inherited name
FilingStatuses == {"single", "married", "head", "marriedJoint", "constructor"}

\* two-letter codes: in the tables (ZZ in none, CO not in the docs table)
States == {"MO", "CA", "FL", "NY", "CO", "ZZ"}

\* the six category keys, an unknown one, and inherited names
Categories ==
    {"taxable", "treasury", "municipal", "state-municipal", "sweep", "etf",
     "bond", "constructor", "toString"}

\* rates passed to getEffectiveTaxRate directly (RateUnit is 100%)
FederalRateArgs == {0, 240, 370, RateUnit}

StateRateArgs == {0, 47, 133, RateUnit}

FundUniverse ==
    { [fundName |-> "Prime Advantage", symbol |-> "SWVXX", category |-> "taxable",
       grossYield |-> 452, expenseRatio |-> 34],
      [fundName |-> "Treasury Obligations", symbol |-> "SNOXX", category |-> "treasury",
       grossYield |-> 423, expenseRatio |-> 34],
      [fundName |-> "Municipal", symbol |-> "SWTXX", category |-> "municipal",
       grossYield |-> 289, expenseRatio |-> 39],
      [fundName |-> "California Municipal", symbol |-> "SWKXX",
       category |-> "state-municipal", grossYield |-> 270, expenseRatio |-> 20],
      [fundName |-> "Government Sweep", symbol |-> "SWGXX", category |-> "sweep",
       grossYield |-> 294, expenseRatio |-> 44],
      [fundName |-> "Government ETF", symbol |-> "SGVT", category |-> "etf",
       grossYield |-> 10, expenseRatio |-> 28] }

FundLists == UNION { [1..n -> FundUniverse] : n \in 0..MaxFunds }

Profiles ==
    [income : {0, 200000, 731201},
     filingStatus : {"single", "married", "constructor"},
     state : {"MO", "CA", "ZZ"}]

\* arguments of one call of a rate function
RateCalls ==
    [income : Incomes, filingStatus : FilingStatuses]
    \cup [state : States]
    \cup [category : Categories, federalRate : FederalRateArgs, stateRate : StateRateArgs]

(***************************************************************************)
(* Spec: calculateAllFunds of the frontend and of the backend, applied to  *)
(* a fund list and a profile                                               *)
(***************************************************************************)
NoRateCall == [fn |-> "none"]

\* a row with no columns: {}
EmptyRow == [k \in {} |-> << >>]

\* a heap without arrays and objects
EmptyHeap == [arrays |-> << >>, objects |-> << >>]

\* no array is on the heap and no call has been logged
PureIdle ==
    /\ csvList = << >>
    /\ heap = EmptyHeap
    /\ calls = << >>

\* no rows have been passed to transformRowsForChart
RowsIdle ==
    /\ chartRows = << >>
    /\ chartDate = << >>
    /\ chartData = NotCalled
    /\ chartSeries = NotCalled

\* the app has not been started
AppIdle ==
    /\ app = Null
    /\ tableRows = << >>
    /\ loadsInFlight = 0

\* the server has received no request
ServerIdle ==
    /\ fundDataCache = [data |-> Null, timestamp |-> Null]
    /\ clock = 0
    /\ requests = << >>
    /\ scrapeCount = 0
    /\ dbRows = {}

MoreIdle == PureIdle /\ RowsIdle /\ AppIdle /\ ServerIdle

\* every group of moreVars but pureVars is idle
NotPureIdle == RowsIdle /\ AppIdle /\ ServerIdle

\* every group of moreVars but rowsVars is idle
NotRowsIdle == PureIdle /\ AppIdle /\ ServerIdle

\* every group of moreVars but appVars is idle
NotAppIdle == PureIdle /\ RowsIdle /\ ServerIdle

\* every group of moreVars but serverVars is idle
NotServerIdle == PureIdle /\ RowsIdle /\ AppIdle

\* nothing has been passed to the CSV, chart and explanation functions
UtilIdle ==
    /\ transformed = NotCalled
    /\ line = << >>
    /\ fields = NotCalled
    /\ csvText = Null
    /\ parsed = NotCalled
    /\ dataPoints = << >>
    /\ aggregated = NotCalled
    /\ topFund = NotCalled
    /\ explanation = NotCalled
    /\ MoreIdle

Init ==
    /\ userProfile \in Profiles
    /\ funds \in FundLists
    /\ results = NotCalled
    /\ resultOrder = << >>
    /\ engineResults = NotCalled
    /\ engineOrder = << >>
    /\ rateArgs = [state |-> "MO"]
    /\ rateRet = NoRateCall
    /\ row = EmptyRow
    /\ categorized = NotCalled
    /\ UtilIdle

CalculateAllFunds ==
    /\ results = NotCalled
    /\ LET r == calculateAllFunds(funds, userProfile)
       IN  /\ results' = r.out
           /\ resultOrder' = r.order
    /\ UNCHANGED <<userProfile, funds, engineResults, engineOrder, rateVars, catVars, utilVars>>

EngineCalculateAllFunds ==
    /\ engineResults = NotCalled
    /\ LET r == Engine_calculateAllFunds(funds, userProfile)
       IN  /\ engineResults' = r.out
           /\ engineOrder' = r.order
    /\ UNCHANGED <<userProfile, funds, results, resultOrder, rateVars, catVars, utilVars>>

Next == CalculateAllFunds \/ EngineCalculateAllFunds

Spec == Init /\ [][Next]_vars

(***************************************************************************)
(* SpecRates: one call of a function of the tax-rate resolver, or of       *)
(* getEffectiveTaxRate, in one of the copies                               *)
(***************************************************************************)
InitRates ==
    /\ userProfile = DefaultProfile
    /\ funds = << >>
    /\ results = NotCalled
    /\ resultOrder = << >>
    /\ engineResults = NotCalled
    /\ engineOrder = << >>
    /\ rateArgs \in RateCalls
    /\ rateRet = NoRateCall
    /\ row = EmptyRow
    /\ categorized = NotCalled
    /\ UtilIdle

RateCall(fn, copy, outcome) ==
    /\ rateRet = NoRateCall
    /\ rateRet' = [fn |-> fn, copy |-> copy, out |-> outcome]
    /\ UNCHANGED <<calcVars, rateArgs, catVars, utilVars>>

CallFederalMarginalRate ==
    /\ "income" \in DOMAIN rateArgs
    /\ RateCall("calculateFederalMarginalRate", "frontend",
                calculateFederalMarginalRate(rateArgs.income, rateArgs.filingStatus))

EngineCallFederalMarginalRate ==
    /\ "income" \in DOMAIN rateArgs
    /\ RateCall("calculateFederalMarginalRate", "backend",
                Engine_calculateFederalMarginalRate(rateArgs.income, rateArgs.filingStatus))

DocsCallFederalMarginalRate ==
    /\ "income" \in DOMAIN rateArgs
    /\ RateCall("calculateFederalMarginalRate", "docs",
                Docs_calculateFederalMarginalRate(rateArgs.income, rateArgs.filingStatus))

CallStateMarginalRate ==
    /\ "state" \in DOMAIN rateArgs
    /\ RateCall("calculateStateMarginalRate", "frontend",
                Returns(calculateStateMarginalRate(rateArgs.state)))

EngineCallStateMarginalRate ==
    /\ "state" \in DOMAIN rateArgs
    /\ RateCall("calculateStateMarginalRate", "backend",
                Returns(Engine_calculateStateMarginalRate(rateArgs.state)))

DocsCallStateMarginalRate ==
    /\ "state" \in DOMAIN rateArgs
    /\ RateCall("calculateStateMarginalRate", "docs",
                Returns(Docs_calculateStateMarginalRate(rateArgs.state)))

CallGetEffectiveTaxRate ==
    /\ "category" \in DOMAIN rateArgs
    /\ RateCall("getEffectiveTaxRate", "frontend",
                Returns(getEffectiveTaxRate(rateArgs.category, rateArgs.federalRate,
                                            rateArgs.stateRate)))

EngineCallGetEffectiveTaxRate ==
    /\ "category" \in DOMAIN rateArgs
    /\ RateCall("getEffectiveTaxRate", "backend",
                Returns(Engine_getEffectiveTaxRate(rateArgs.category, rateArgs.federalRate,
                                                   rateArgs.stateRate)))

NextRates ==
    \/ CallFederalMarginalRate
    \/ EngineCallFederalMarginalRate
    \/ DocsCallFederalMarginalRate
    \/ CallStateMarginalRate
    \/ EngineCallStateMarginalRate
    \/ DocsCallStateMarginalRate
    \/ CallGetEffectiveTaxRate
    \/ EngineCallGetEffectiveTaxRate

SpecRates == InitRates /\ [][NextRates]_vars

(***************************************************************************)
(* Claims on the tax-rate resolver and the calculator                      *)
(***************************************************************************)
\* the treatment the categories are documented to have; every other
\* category is treated as taxable
ClaimedEffectiveRate(category, federalRate, stateRate) ==
    IF category = "treasury" THEN federalRate * RateUnit
    ELSE IF category = "municipal" THEN stateRate * RateUnit
    ELSE IF category = "state-municipal" THEN 0
    ELSE federalRate * RateUnit + stateRate * (RateUnit - federalRate)

EffectiveRateCalled == rateRet.fn = "getEffectiveTaxRate"

\* C1: getEffectiveTaxRate(category, federalRate, stateRate) is federalRate +
\* stateRate * (1 - federalRate) for taxable, sweep, etf and any unknown
\* category, federalRate for treasury, stateRate for municipal and 0 for
\* state-municipal, in the frontend and in the backend.
C1_EffectiveRateFormula ==
    EffectiveRateCalled =>
        rateRet.out.value =
            ClaimedEffectiveRate(rateArgs.category, rateArgs.federalRate,
                                 rateArgs.stateRate)

\* the outcomes of calculateAllFunds that returned, frontend and backend
ReturnedLists ==
    {r \in {results, engineResults} : r.kind = "return"}

\* 1 - effectiveTaxRate as a fraction
OneMinus(effectiveTaxRate) == Rat(EffUnit - effectiveTaxRate, EffUnit)

taxAdvantagedCategories == {"treasury", "municipal", "state-municipal"}

C3_TaxableIdentity ==
    results.kind = "return" =>
        \A i \in 1..Len(results.value) :
            results.value[i].category \in {"taxable", "sweep", "etf"} =>
                results.value[i].taxEquivalentYield = Rat(results.value[i].netYield, 1)

\* a sweep fund and an etf fund with a positive effective tax rate were calculated
C3_Witness ==
    /\ results.kind = "return"
    /\ \E i, j \in 1..Len(results.value) :
          /\ results.value[i].category = "sweep"
          /\ results.value[j].category = "etf"
          /\ results.value[i].effectiveTaxRate > 0
          /\ results.value[j].effectiveTaxRate > 0

IsPermutation(order, n) ==
    /\ Len(order) = n
    /\ \A k \in 1..n : \E i \in 1..n : order[i] = k

\* what C4 says of one outcome: rl the returned list, order its ghost order,
\* Calc(i) the per-fund result of funds[i]
RankedStably(rl, order) ==
    /\ Len(rl) = Len(funds)
    /\ IsPermutation(order, Len(funds))
    /\ \A i \in 1..(Len(rl) - 1) :
          /\ ~RatLess(rl[i].taxEquivalentYield, rl[i + 1].taxEquivalentYield)
          /\ rl[i].taxEquivalentYield = rl[i + 1].taxEquivalentYield =>
                order[i] < order[i + 1]

\* C4: calculateAllFunds returns one result per input fund, a permutation of
\* the per-fund results, in non-increasing order of taxEquivalentYield, and
\* results of equal taxEquivalentYield keep their input order.
C4_RankOrdering ==
    /\ results.kind = "return" =>
          /\ RankedStably(results.value, resultOrder)
          /\ \A i \in 1..Len(results.value) :
                Returns(results.value[i]) =
                    calculateTaxEquivalentYield(funds[resultOrder[i]], userProfile)
    /\ engineResults.kind = "return" =>
          /\ RankedStably(engineResults.value, engineOrder)
          /\ \A i \in 1..Len(engineResults.value) :
                Returns(engineResults.value[i]) =
                    Engine_calculateTaxEquivalentYield(funds[engineOrder[i]], userProfile)

\* three funds were ranked, the input was not in rank order, and two of them tie
C4_Witness ==
    /\ results.kind = "return"
    /\ Len(results.value) = 3
    /\ resultOrder # << 1, 2, 3 >>
    /\ \E i \in 1..2 :
          /\ results.value[i].taxEquivalentYield = results.value[i + 1].taxEquivalentYield
          /\ results.value[i].fundName # results.value[i + 1].fundName

\* the rate of the bracket with the greatest lower bound strictly less than
\* income, and of the lowest bracket when there is none
ClaimedBracketRate(brackets, income) ==
    LET below == {i \in 1..Len(brackets) : brackets[i].min < income}
    IN  IF below = {} THEN brackets[1].rate
        ELSE LET top == CHOOSE i \in below :
                            \A j \in below : brackets[j].min <= brackets[i].min
             IN  brackets[top].rate

\* the bracket table of a copy
BracketsOf(copy) ==
    IF copy = "frontend" THEN TAX_BRACKETS_2024
    ELSE IF copy = "backend" THEN Engine_TAX_BRACKETS_2024
    ELSE Docs_TAX_BRACKETS_2024

FederalRateCalled == rateRet.fn = "calculateFederalMarginalRate"

\* C5: in the backend, the frontend and the docs/ copy alike,
\* calculateFederalMarginalRate returns the rate of the bracket with the
\* greatest lower bound strictly less than income (so an income equal to a
\* bracket's lower bound gets the rate of the bracket below), and the lowest
\* bracket's rate for an income of 0.
C5_BoundaryPolicyEveryCopy ==
    (FederalRateCalled /\ HasOwn(BracketsOf(rateRet.copy), rateArgs.filingStatus)) =>
        rateRet.out =
            Returns(ClaimedBracketRate(BracketsOf(rateRet.copy)[rateArgs.filingStatus],
                                       rateArgs.income))

\* C6: calculateFederalMarginalRate with a filing status that is no key of the
\* bracket table returns what it returns for 'single', for every income, and
\* calculateStateMarginalRate with a state code absent from the state table
\* returns 0 (frontend and backend); neither fails.
C6_UnknownKeysFallBack ==
    /\ ( /\ FederalRateCalled
         /\ rateRet.copy = "frontend"
         /\ ~HasOwn(TAX_BRACKETS_2024, rateArgs.filingStatus) ) =>
            rateRet.out = calculateFederalMarginalRate(rateArgs.income, "single")
    /\ ( /\ FederalRateCalled
         /\ rateRet.copy = "backend"
         /\ ~HasOwn(Engine_TAX_BRACKETS_2024, rateArgs.filingStatus) ) =>
            rateRet.out = Engine_calculateFederalMarginalRate(rateArgs.income, "single")
    /\ ( /\ rateRet.fn = "calculateStateMarginalRate"
         /\ rateRet.copy = "frontend"
         /\ ~HasOwn(STATE_TAX_RATES, rateArgs.state) ) =>
            rateRet.out = Returns(0)
    /\ ( /\ rateRet.fn = "calculateStateMarginalRate"
         /\ rateRet.copy = "backend"
         /\ ~HasOwn(Engine_STATE_TAX_RATES, rateArgs.state) ) =>
            rateRet.out = Returns(0)

\* C7: netYield = grossYield - expenseRatio with no floor at zero (it is
\* negative when expenseRatio > grossYield), and the result's grossYield and
\* expenseRatio are those of the input fund.
C7_NetYieldNotClamped ==
    /\ results.kind = "return" =>
          \A i \in 1..Len(results.value) :
              LET r == results.value[i]
                  f == funds[resultOrder[i]]
              IN  /\ r.grossYield = f.grossYield
                  /\ r.expenseRatio = f.expenseRatio
                  /\ r.netYield = f.grossYield - f.expenseRatio
    /\ engineResults.kind = "return" =>
          \A i \in 1..Len(engineResults.value) :
              LET r == engineResults.value[i]
                  f == funds[engineOrder[i]]
              IN  /\ r.grossYield = f.grossYield
                  /\ r.expenseRatio = f.expenseRatio
                  /\ r.netYield = f.grossYield - f.expenseRatio

\* a fund whose expense ratio exceeds its gross yield was calculated by both
\* copies, with a negative net yield
C7_Witness ==
    /\ results.kind = "return"
    /\ engineResults.kind = "return"
    /\ \E i \in 1..Len(results.value) :
          /\ results.value[i].expenseRatio > results.value[i].grossYield
          /\ results.value[i].netYield < 0
    /\ \E i \in 1..Len(engineResults.value) :
          /\ engineResults.value[i].expenseRatio > engineResults.value[i].grossYield
          /\ engineResults.value[i].netYield < 0

\* the call has the default profile's income and filing status, or its state
DefaultFederalCall ==
    /\ FederalRateCalled
    /\ rateRet.copy \in {"frontend", "backend"}
    /\ rateArgs.income = DefaultProfile.income
    /\ rateArgs.filingStatus = DefaultProfile.filingStatus

DefaultStateCall ==
    /\ rateRet.fn = "calculateStateMarginalRate"
    /\ rateRet.copy \in {"frontend", "backend"}
    /\ rateArgs.state = DefaultProfile.state

UpperCase ==
    << "A", "B", "C", "D", "E", "F", "G", "H", "I", "J", "K", "L", "M",
       "N", "O", "P", "Q", "R", "S", "T", "U", "V", "W", "X", "Y", "Z" >>

LowerCase ==
    << "a", "b", "c", "d", "e", "f", "g", "h", "i", "j", "k", "l", "m",
       "n", "o", "p", "q", "r", "s", "t", "u", "v", "w", "x", "y", "z" >>

\* String.prototype.toLowerCase
toLowerCase(text) ==
    [i \in 1..Len(text) |->
        IF \E k \in 1..26 : UpperCase[k] = text[i]
        THEN LowerCase[CHOOSE k \in 1..26 : UpperCase[k] = text[i]]
        ELSE text[i]]

\* String.prototype.includes
includes(text, sub) ==
    \E off \in 0..(Len(text) - Len(sub)) :
        \A j \in 1..Len(sub) : text[off + j] = sub[j]

\* the substrings the categorizer looks for
kw_sweep == << "s", "w", "e", "e", "p" >>

kw_etf == << "e", "t", "f" >>

kw_money_market_etf == << "m", "o", "n", "e", "y", " ", "m", "a", "r", "k", "e", "t", " ", "e", "t", "f" >>

kw_treasury == << "t", "r", "e", "a", "s", "u", "r", "y" >>

kw_tax_exempt == << "t", "a", "x", "-", "e", "x", "e", "m", "p", "t" >>

kw_state_specific == << "s", "t", "a", "t", "e", "-", "s", "p", "e", "c", "i", "f", "i", "c" >>

kw_state_municipal == << "s", "t", "a", "t", "e", " ", "m", "u", "n", "i", "c", "i", "p", "a", "l" >>

kw_taxable == << "t", "a", "x", "a", "b", "l", "e" >>

kw_municipal == << "m", "u", "n", "i", "c", "i", "p", "a", "l" >>

kw_california == << "c", "a", "l", "i", "f", "o", "r", "n", "i", "a" >>

kw_new_york == << "n", "e", "w", " ", "y", "o", "r", "k" >>

\* `row[key] || ""`: a missing column is undefined, and so is falsy, like ""
orEmpty(r, key) == IF key \in DOMAIN r THEN r[key] ELSE << >>

\* `row["Fund Name"] || row["FundName"] || ""`
rowName(r) ==
    IF orEmpty(r, "Fund Name") # << >> THEN r["Fund Name"] ELSE orEmpty(r, "FundName")

\* mutant of categorizeFund: the tax-exempt rule is tried before the treasury rule
categorizeFund_taxExemptFirst(r) ==
    LET csvCategory == toLowerCase(orEmpty(r, "Category"))
        name == toLowerCase(rowName(r))
    IN  IF includes(csvCategory, kw_sweep) THEN "sweep"
        ELSE IF includes(csvCategory, kw_etf) \/ includes(csvCategory, kw_money_market_etf)
        THEN "etf"
        ELSE IF includes(csvCategory, kw_tax_exempt) THEN "municipal"
        ELSE IF includes(csvCategory, kw_treasury) THEN "treasury"
        ELSE IF includes(csvCategory, kw_state_specific)
                \/ includes(csvCategory, kw_state_municipal)
        THEN "state-municipal"
        ELSE IF includes(csvCategory, kw_taxable) THEN "taxable"
        ELSE IF includes(name, kw_etf) THEN "etf"
        ELSE IF includes(name, kw_sweep) THEN "sweep"
        ELSE IF includes(name, kw_treasury) THEN "treasury"
        ELSE IF includes(name, kw_tax_exempt) \/ includes(name, kw_municipal)
        THEN IF includes(name, kw_california) \/ includes(name, kw_new_york)
             THEN "state-municipal"
             ELSE "municipal"
        ELSE "taxable"

\* mutant of categorizeFund: no default, a row that matches no rule gets the
\* declared category text itself
categorizeFund_noDefault(r) ==
    LET csvCategory == toLowerCase(orEmpty(r, "Category"))
        name == toLowerCase(rowName(r))
    IN  IF includes(csvCategory, kw_sweep) THEN "sweep"
        ELSE IF includes(csvCategory, kw_etf) \/ includes(csvCategory, kw_money_market_etf)
        THEN "etf"
        ELSE IF includes(csvCategory, kw_treasury) THEN "treasury"
        ELSE IF includes(csvCategory, kw_tax_exempt) THEN "municipal"
        ELSE IF includes(csvCategory, kw_state_specific)
                \/ includes(csvCategory, kw_state_municipal)
        THEN "state-municipal"
        ELSE IF includes(csvCategory, kw_taxable) THEN "taxable"
        ELSE IF includes(name, kw_etf) THEN "etf"
        ELSE IF includes(name, kw_sweep) THEN "sweep"
        ELSE IF includes(name, kw_treasury) THEN "treasury"
        ELSE IF includes(name, kw_tax_exempt) \/ includes(name, kw_municipal)
        THEN IF includes(name, kw_california) \/ includes(name, kw_new_york)
             THEN "state-municipal"
             ELSE "municipal"
        ELSE "unknown"

categorizeFund(r) ==
    LET csvCategory == toLowerCase(orEmpty(r, "Category"))
        name == toLowerCase(rowName(r))
    IN  IF includes(csvCategory, kw_sweep) THEN "sweep"
        ELSE IF includes(csvCategory, kw_etf) \/ includes(csvCategory, kw_money_market_etf)
        THEN "etf"
        ELSE IF includes(csvCategory, kw_treasury) THEN "treasury"
        ELSE IF includes(csvCategory, kw_tax_exempt) THEN "municipal"
        ELSE IF includes(csvCategory, kw_state_specific)
                \/ includes(csvCategory, kw_state_municipal)
        THEN "state-municipal"
        ELSE IF includes(csvCategory, kw_taxable) THEN "taxable"
        ELSE IF includes(name, kw_etf) THEN "etf"
        ELSE IF includes(name, kw_sweep) THEN "sweep"
        ELSE IF includes(name, kw_treasury) THEN "treasury"
        ELSE IF includes(name, kw_tax_exempt) \/ includes(name, kw_municipal)
        THEN IF includes(name, kw_california) \/ includes(name, kw_new_york)
             THEN "state-municipal"
             ELSE "municipal"
        ELSE "taxable"

(***************************************************************************)
(* SpecCategorize: categorizeFund applied to a row                         *)
(***************************************************************************)
\* values of the Category column: the feed's, the tests', and texts that match several rules
CategoryTexts ==
    { << >>,
      << "T", "a", "x", "a", "b", "l", "e", " ", "M", "o", "n", "e", "y", " ", "F", "u", "n", "d", "s" >>,
      << "T", "r", "e", "a", "s", "u", "r", "y", " ", "M", "o", "n", "e", "y", " ", "F", "u", "n", "d", "s" >>,
      << "T", "a", "x", "-", "E", "x", "e", "m", "p", "t", " ", "M", "o", "n", "e", "y", " ", "F", "u", "n", "d", "s" >>,
      << "S", "t", "a", "t", "e", "-", "S", "p", "e", "c", "i", "f", "i", "c", " ", "M", "u", "n", "i", "c", "i", "p", "a", "l", " ", "F", "u", "n", "d", "s" >>,
      << "S", "t", "a", "t", "e", " ", "M", "u", "n", "i", "c", "i", "p", "a", "l" >>,
      << "S", "w", "e", "e", "p", " ", "M", "o", "n", "e", "y", " ", "F", "u", "n", "d" >>,
      << "M", "o", "n", "e", "y", " ", "M", "a", "r", "k", "e", "t", " ", "E", "T", "F" >>,
      << "U", "n", "k", "n", "o", "w", "n" >>,
      << "T", "a", "x", "a", "b", "l", "e", " ", "S", "w", "e", "e", "p" >>,
      << "T", "r", "e", "a", "s", "u", "r", "y", " ", "E", "T", "F" >>,
      << "T", "a", "x", "-", "E", "x", "e", "m", "p", "t", " ", "T", "r", "e", "a", "s", "u", "r", "y" >>,
      << "S", "t", "a", "t", "e", "-", "S", "p", "e", "c", "i", "f", "i", "c", " ", "T", "a", "x", "-", "E", "x", "e", "m", "p", "t" >>,
      << "T", "a", "x", "a", "b", "l", "e", " ", "S", "t", "a", "t", "e", " ", "M", "u", "n", "i", "c", "i", "p", "a", "l" >>,
      << "N", "E", "T", "F", "L", "I", "X" >>,
      << "M", "u", "n", "i", "c", "i", "p", "a", "l" >> }

\* fund names
FundNameTexts ==
    { << >>,
      << "R", "a", "n", "d", "o", "m", " ", "F", "u", "n", "d" >>,
      << "S", "c", "h", "w", "a", "b", " ", "G", "o", "v", "e", "r", "n", "m", "e", "n", "t", " ", "M", "o", "n", "e", "y", " ", "M", "a", "r", "k", "e", "t", " ", "E", "T", "F" >>,
      << "T", "r", "e", "a", "s", "u", "r", "y", " ", "O", "b", "l", "i", "g", "a", "t", "i", "o", "n", "s", " ", "F", "u", "n", "d" >>,
      << "S", "c", "h", "w", "a", "b", " ", "M", "u", "n", "i", "c", "i", "p", "a", "l", " ", "M", "o", "n", "e", "y", " ", "F", "u", "n", "d" >>,
      << "S", "c", "h", "w", "a", "b", " ", "C", "a", "l", "i", "f", "o", "r", "n", "i", "a", " ", "M", "u", "n", "i", "c", "i", "p", "a", "l", " ", "M", "o", "n", "e", "y", " ", "F", "u", "n", "d" >>,
      << "N", "e", "w", " ", "Y", "o", "r", "k", " ", "T", "a", "x", "-", "E", "x", "e", "m", "p", "t", " ", "F", "u", "n", "d" >>,
      << "G", "o", "v", "e", "r", "n", "m", "e", "n", "t", " ", "M", "o", "n", "e", "y", " ", "F", "u", "n", "d", " ", "-", " ", "S", "w", "e", "e", "p", " ", "S", "h", "a", "r", "e", "s" >>,
      << "T", "r", "e", "a", "s", "u", "r", "y", " ", "S", "w", "e", "e", "p", " ", "E", "T", "F" >>,
      << "C", "a", "l", "i", "f", "o", "r", "n", "i", "a", " ", "T", "r", "e", "a", "s", "u", "r", "y" >>,
      << "T", "a", "x", "a", "b", "l", "e", " ", "S", "t", "a", "t", "e", " ", "M", "u", "n", "i", "c", "i", "p", "a", "l", " ", "S", "w", "e", "e", "p" >>,
      << "N", "E", "W", " ", "Y", "O", "R", "K", " ", "M", "U", "N", "I", "C", "I", "P", "A", "L" >> }

\* a row with column key of value text, or without that column
Column(key, texts) == {EmptyRow} \cup {key :> text : text \in texts}

\* rows with any of the columns Category, Fund Name and FundName (the second
\* spelling only with a few names)
Rows ==
    { c @@ n @@ m :
        c \in Column("Category", CategoryTexts),
        n \in Column("Fund Name", FundNameTexts),
        m \in Column("FundName", { << >>, << "S", "w", "e", "e", "p" >>,
                                   << "P", "r", "i", "m", "e" >> }) }

InitCategorize ==
    /\ userProfile = DefaultProfile
    /\ funds = << >>
    /\ results = NotCalled
    /\ resultOrder = << >>
    /\ engineResults = NotCalled
    /\ engineOrder = << >>
    /\ rateArgs = [state |-> "MO"]
    /\ rateRet = NoRateCall
    /\ row \in Rows
    /\ categorized = NotCalled
    /\ UtilIdle

CategorizeFund ==
    /\ categorized = NotCalled
    /\ categorized' = Returns(categorizeFund(row))
    /\ UNCHANGED <<calcVars, rateVars, row, utilVars>>

NextCategorize == CategorizeFund

SpecCategorize == InitCategorize /\ [][NextCategorize]_vars

(***************************************************************************)
(* Claims on the categorizer                                               *)
(***************************************************************************)
\* the category of the first rule (a pair of a substring and a category), in
\* the order of the list, whose substring the text contains; "" when none does
RECURSIVE FirstMatch(_, _, _)
FirstMatch(rules, text, i) ==
    IF i > Len(rules) THEN ""
    ELSE IF includes(text, rules[i][1]) THEN rules[i][2]
    ELSE FirstMatch(rules, text, i + 1)

\* the rules on the declared category, in the documented order
DeclaredCategoryRules ==
    << << kw_sweep, "sweep" >>,
       << kw_etf, "etf" >>,
       << kw_treasury, "treasury" >>,
       << kw_tax_exempt, "municipal" >>,
       << kw_state_specific, "state-municipal" >>,
       << kw_state_municipal, "state-municipal" >>,
       << kw_taxable, "taxable" >> >>

\* the rules on the fund name; "muni" stands for the fourth rule, which the
\* name's state then resolves
FundNameRules ==
    << << kw_etf, "etf" >>,
       << kw_sweep, "sweep" >>,
       << kw_treasury, "treasury" >>,
       << kw_tax_exempt, "muni" >>,
       << kw_municipal, "muni" >> >>

DeclaredMatch(r) ==
    FirstMatch(DeclaredCategoryRules, toLowerCase(orEmpty(r, "Category")), 1)

FundNameMatch(r) ==
    LET name == toLowerCase(rowName(r))
        m == FirstMatch(FundNameRules, name, 1)
    IN  IF m = "muni"
        THEN IF includes(name, kw_california) \/ includes(name, kw_new_york)
             THEN "state-municipal"
             ELSE "municipal"
        ELSE m

\* the documented two-stage procedure
ClaimedCategory(r) ==
    IF DeclaredMatch(r) # "" THEN DeclaredMatch(r)
    ELSE IF FundNameMatch(r) # "" THEN FundNameMatch(r)
    ELSE "taxable"

\* C9: categorizeFund(row) is the two-stage first-match-wins procedure on
\* lower-cased text: the rules on the declared Category in their order, the
\* rules on the fund name only when none of those matched; a matching declared
\* category overrides whatever the fund name says.
C9_TwoStageFirstMatch ==
    categorized.kind = "return" =>
        /\ categorized.value = ClaimedCategory(row)
        /\ DeclaredMatch(row) # "" => categorized.value = DeclaredMatch(row)

\* a row whose declared category matches two rules and whose name matches a
\* rule of another category was categorized by its declared category
C9_Witness ==
    /\ categorized.kind = "return"
    /\ includes(toLowerCase(orEmpty(row, "Category")), kw_treasury)
    /\ includes(toLowerCase(orEmpty(row, "Category")), kw_tax_exempt)
    /\ includes(toLowerCase(rowName(row)), kw_sweep)
    /\ categorized.value = "treasury"

CategoryKeys == {"taxable", "treasury", "municipal", "state-municipal", "sweep", "etf"}

\* C10: categorizeFund returns one of the six category keys for every row,
\* also a row without a Category or a fund-name column, and taxable whenever
\* no rule matches.
C10_CategorizationTotal ==
    categorized.kind = "return" =>
        /\ categorized.value \in CategoryKeys
        /\ (DeclaredMatch(row) = "" /\ FundNameMatch(row) = "") =>
              categorized.value = "taxable"

\* a row with no column at all was categorized
C10_Witness ==
    /\ categorized.kind = "return"
    /\ DOMAIN row = {}
    /\ categorized.value = "taxable"

(***************************************************************************)
(* Fund objects: getField, parsePercent, getFundCategory and               *)
(* transformRowToFund                                                      *)
(***************************************************************************)
\* characters removed by String.prototype.trim and skipped by parseFloat
WhiteSpace == {" ", "\t", "\n", "\r"}

Digits == << "0", "1", "2", "3", "4", "5", "6", "7", "8", "9" >>

IsDigit(c) == \E k \in 1..10 : Digits[k] = c

DigitValue(c) == (CHOOSE k \in 1..10 : Digits[k] = c) - 1

\* String.prototype.trim
trim(text) ==
    LET keep == {i \in 1..Len(text) : text[i] \notin WhiteSpace}
    IN  IF keep = {} THEN << >>
        ELSE SubSeq(text,
                    CHOOSE i \in keep : \A j \in keep : i <= j,
                    CHOOSE i \in keep : \A j \in keep : j <= i)

\* String.prototype.replace(c, ""): the first occurrence of c is removed
removeFirst(text, c) ==
    IF \E i \in 1..Len(text) : text[i] = c
    THEN LET i == CHOOSE k \in 1..Len(text) :
                      text[k] = c /\ \A j \in 1..(k - 1) : text[j] # c
         IN  SubSeq(text, 1, i - 1) \o SubSeq(text, i + 1, Len(text))
    ELSE text

\* JavaScript numbers: NaN, the two infinities, and the finite ones as fractions
NaN == [kind |-> "NaN"]

InfiniteNumber(negative) == [kind |-> "Infinity", negative |-> negative]

Number(q) == [kind |-> "number", value |-> q]

Zero == Number(Rat(0, 1))

\* the largest and the smallest decimal exponent of a finite non-zero double
MaxDecimalExponent == 308

MinDecimalExponent == -324

\* the exponents whose power of ten is formed exactly
ExactExponent == 4

RECURSIVE Pow10(_)
Pow10(n) == IF n = 0 THEN 1 ELSE 10 * Pow10(n - 1)

\* the first position from i on that holds no digit
RECURSIVE digitsEnd(_, _)
digitsEnd(text, i) ==
    IF i <= Len(text) /\ IsDigit(text[i]) THEN digitsEnd(text, i + 1) ELSE i

\* the decimal number written at positions i .. j-1
RECURSIVE digitsValue(_, _, _)
digitsValue(text, i, j) ==
    IF j <= i THEN 0 ELSE 10 * digitsValue(text, i, j - 1) + DigitValue(text[j - 1])

startsWithAt(text, i, sub) ==
    /\ i + Len(sub) - 1 <= Len(text)
    /\ \A j \in 1..Len(sub) : text[i + j - 1] = sub[j]

kw_Infinity == << "I", "n", "f", "i", "n", "i", "t", "y" >>

\* n / 10^nFrac * 10^exponent as a double, for n of nInt + nFrac digits: exact
\* for small exponents, infinite or zero when every such value is out of the
\* range of a double
scaled(n, nInt, nFrac, exponent, negative) ==
    LET s == IF negative THEN -1 ELSE 1
    IN  CASE n = 0 -> Zero
          [] n # 0 /\ exponent \in 0..ExactExponent ->
                Number(Rat(s * n * Pow10(exponent), Pow10(nFrac)))
          [] n # 0 /\ -exponent \in 1..ExactExponent ->
                Number(Rat(s * n, Pow10(nFrac) * Pow10(-exponent)))
          [] n # 0 /\ exponent - nFrac > MaxDecimalExponent ->
                InfiniteNumber(negative)
          [] n # 0 /\ exponent + nInt < MinDecimalExponent ->
                Zero

\* parseFloat: the longest prefix, after leading white space, that is a
\* decimal literal; NaN when there is none
parseFloat(text) ==
    LET s == trim(text)
        signed == s # << >> /\ s[1] \in {"+", "-"}
        negative == signed /\ s[1] = "-"
        p == IF signed THEN 2 ELSE 1
        q == digitsEnd(s, p)
        hasDot == q <= Len(s) /\ s[q] = "."
        r == IF hasDot THEN digitsEnd(s, q + 1) ELSE q
        nInt == q - p
        nFrac == IF hasDot THEN r - q - 1 ELSE 0
        expSigned == r + 1 <= Len(s) /\ s[r + 1] \in {"+", "-"}
        e0 == IF expSigned THEN r + 2 ELSE r + 1
        e1 == digitsEnd(s, e0)
        hasExp == r <= Len(s) /\ s[r] \in {"e", "E"} /\ e1 > e0
        exponent == IF hasExp
                    THEN (IF expSigned /\ s[r + 1] = "-" THEN -1 ELSE 1) * digitsValue(s, e0, e1)
                    ELSE 0
    IN  IF startsWithAt(s, p, kw_Infinity) THEN InfiniteNumber(negative)
        ELSE IF nInt + nFrac = 0 THEN NaN
        ELSE scaled(digitsValue(s, p, q) * Pow10(nFrac) + digitsValue(s, q + 1, r),
                    nInt, nFrac, exponent, negative)

\* `if (!val) return 0`, then parseFloat of the text without its first "%",
\* and 0 for NaN
parsePercent(val) ==
    IF val = << >> THEN Zero
    ELSE LET num == parseFloat(trim(removeFirst(val, "%")))
         IN  IF num = NaN THEN Zero ELSE num

\* the value under the first of the keys that the row has, "" when it has none
RECURSIVE getFieldFrom(_, _, _)
getFieldFrom(r, keys, i) ==
    IF i > Len(keys) THEN << >>
    ELSE IF keys[i] \in DOMAIN r THEN r[keys[i]]
    ELSE getFieldFrom(r, keys, i + 1)

getField(r, keys) == getFieldFrom(r, keys, 1)

kw_us_treasury == << "u", ".", "s", ".", " ", "t", "r", "e", "a", "s", "u", "r", "y" >>

kw_treasury_obligations == << "t", "r", "e", "a", "s", "u", "r", "y", " ", "o", "b", "l", "i", "g", "a", "t", "i", "o", "n", "s" >>

kw_government == << "g", "o", "v", "e", "r", "n", "m", "e", "n", "t" >>

kw_prime == << "p", "r", "i", "m", "e" >>

\* the four Fund Category labels
TaxableLabel == "Taxable - Subject to all taxes"

TreasuryLabel == "Treasury - State tax-free"

MunicipalLabel == "Municipal - Federal tax-free"

StateMunicipalLabel == "State Municipal - Both tax-free (residents only)"

\* mutant of getFundCategory: the municipal rule is tried before the state rule
getFundCategory_municipalFirst(fundName, csvCategory) ==
    LET name == toLowerCase(fundName)
        category == toLowerCase(csvCategory)
    IN  IF includes(category, kw_tax_exempt) \/ includes(name, kw_municipal)
        THEN MunicipalLabel
        ELSE IF includes(name, kw_california) \/ includes(name, kw_new_york)
        THEN StateMunicipalLabel
        ELSE IF includes(name, kw_us_treasury) \/ includes(name, kw_treasury_obligations)
        THEN TreasuryLabel
        ELSE IF includes(name, kw_government) THEN TaxableLabel
        ELSE IF includes(name, kw_prime) THEN TaxableLabel
        ELSE TaxableLabel

\* `(fundName || "")` and `(csvCategory || "")` are the texts themselves
getFundCategory(fundName, csvCategory) ==
    LET name == toLowerCase(fundName)
        category == toLowerCase(csvCategory)
    IN  IF includes(name, kw_california) \/ includes(name, kw_new_york)
        THEN StateMunicipalLabel
        ELSE IF includes(category, kw_tax_exempt) \/ includes(name, kw_municipal)
        THEN MunicipalLabel
        ELSE IF includes(name, kw_us_treasury) \/ includes(name, kw_treasury_obligations)
        THEN TreasuryLabel
        ELSE IF includes(name, kw_government) THEN TaxableLabel
        ELSE IF includes(name, kw_prime) THEN TaxableLabel
        ELSE TaxableLabel

transformRowToFund(r) ==
    LET fundName == getField(r, << "Fund Name", "FundName" >>)
        csvCategory == orEmpty(r, "Category")
    IN  [fundName |-> fundName,
         symbol |-> getField(r, << "Ticker", "Symbol" >>),
         category |-> categorizeFund(r),
         csvCategory |-> csvCategory,
         fundCategory |-> getFundCategory(fundName, csvCategory),
         grossYield |-> parsePercent(getField(r,
             << "7-Day Yield (with waivers)", "7DayYieldWithWaivers" >>)),
         expenseRatio |-> parsePercent(getField(r,
             << "Net Expense Ratio", "NetExpenseRatio", "Expense Ratio" >>)),
         minimumInvestment |-> getField(r,
             << "Minimum Initial Investment", "MinimumInitialInvestment" >>),
         eligibleInvestors |-> getField(r, << "Eligible Investors", "EligibleInvestors" >>),
         netYield |-> Null,
         taxEquivalentYield |-> Null,
         annualReturn |-> Null]

(***************************************************************************)
(* SpecTransform: transformRowToFund applied to a row                      *)
(***************************************************************************)
\* fund names with and without the treasury phrases
TreasuryNameTexts ==
    { << "S", "c", "h", "w", "a", "b", " ", "U", ".", "S", ".", " ", "T", "r", "e", "a", "s", "u", "r", "y", " ", "M", "o", "n", "e", "y", " ", "F", "u", "n", "d", " ", "-", " ", "I", "n", "v", "e", "s", "t", "o", "r", " ", "S", "h", "a", "r", "e", "s" >>,
      << "S", "c", "h", "w", "a", "b", " ", "T", "r", "e", "a", "s", "u", "r", "y", " ", "O", "b", "l", "i", "g", "a", "t", "i", "o", "n", "s", " ", "M", "o", "n", "e", "y", " ", "F", "u", "n", "d", " ", "-", " ", "I", "n", "v", "e", "s", "t", "o", "r", " ", "S", "h", "a", "r", "e", "s" >>,
      << "S", "c", "h", "w", "a", "b", " ", "P", "r", "i", "m", "e", " ", "A", "d", "v", "a", "n", "t", "a", "g", "e", " ", "M", "o", "n", "e", "y", " ", "F", "u", "n", "d", " ", "-", " ", "I", "n", "v", "e", "s", "t", "o", "r", " ", "S", "h", "a", "r", "e", "s" >>,
      << "S", "c", "h", "w", "a", "b", " ", "G", "o", "v", "e", "r", "n", "m", "e", "n", "t", " ", "M", "o", "n", "e", "y", " ", "F", "u", "n", "d", " ", "-", " ", "I", "n", "v", "e", "s", "t", "o", "r", " ", "S", "h", "a", "r", "e", "s" >>,
      << "T", "r", "e", "a", "s", "u", "r", "y", " ", "F", "u", "n", "d" >>,
      << "M", "u", "n", "i", "c", "i", "p", "a", "l", " ", "T", "r", "e", "a", "s", "u", "r", "y", " ", "O", "b", "l", "i", "g", "a", "t", "i", "o", "n", "s", " ", "F", "u", "n", "d" >> }

\* cells of the yield and expense ratio columns
PercentTexts ==
    { << >>,
      << "4", ".", "5", "2", "%" >>,
      << "4", ".", "5", "2" >>,
      << " ", " ", "4", ".", "5", "2", "%", " ", " " >>,
      << "0", ".", "3", "4", "%" >>,
      << "0" >>,
      << "0", ".", "0", "0", "%" >>,
      << "-", "0", ".", "1", "0", "%" >>,
      << ".", "5" >>,
      << "5", "." >>,
      << "a", "b", "c" >>,
      << "N", "/", "A" >>,
      << "-", "-" >>,
      << "%" >>,
      << " " >>,
      << "4", ".", "5", "a", "b", "c" >>,
      << "4", ".", "5", "2", "%", "%" >>,
      << "1", "e", "2" >>,
      << "2", ".", "5", "e", "-", "1" >>,
      << "1", "e", "9", "9", "9" >>,
      << "1", "e", "-", "9", "9", "9" >>,
      << "I", "n", "f", "i", "n", "i", "t", "y" >>,
      << "-", "I", "n", "f", "i", "n", "i", "t", "y" >>,
      << "+", "4", ".", "5" >> }

\* rows from which any of the expected columns may be missing: rows that vary
\* the category and the fund name, rows that vary the yield and expense ratio
\* cells, and rows that vary the other text cells
TransformRows ==
    { c @@ n @@ m :
        c \in Column("Category", CategoryTexts),
        n \in Column("Fund Name", FundNameTexts \cup TreasuryNameTexts),
        m \in Column("FundName", { << >>, << "P", "r", "i", "m", "e" >> }) }
    \cup
    { y @@ z @@ e @@ f @@ g :
        y \in Column("7-Day Yield (with waivers)", PercentTexts),
        z \in Column("7DayYieldWithWaivers", { << "4", ".", "1", "0", "%" >> }),
        e \in Column("Net Expense Ratio", { << >>, << "0", ".", "3", "4", "%" >>, << "n", "/", "a" >> }),
        f \in Column("NetExpenseRatio", { << "0", ".", "2", "0" >> }),
        g \in Column("Expense Ratio", { << "0", ".", "5", "%" >> }) }
    \cup
    { t @@ s @@ m @@ n @@ e @@ f :
        t \in Column("Ticker", { << >>, << "S", "W", "V", "X", "X" >> }),
        s \in Column("Symbol", { << "S", "N", "O", "X", "X" >> }),
        m \in Column("Minimum Initial Investment", { << >>, << "N", "o", " ", "M", "i", "n", "i", "m", "u", "m" >> }),
        n \in Column("MinimumInitialInvestment", { << "$", "0" >> }),
        e \in Column("Eligible Investors", { << >>, << "R", "e", "t", "a", "i", "l" >> }),
        f \in Column("EligibleInvestors", { << "I", "n", "s", "t", "i", "t", "u", "t", "i", "o", "n", "a", "l" >> }) }

InitTransform ==
    /\ userProfile = DefaultProfile
    /\ funds = << >>
    /\ results = NotCalled
    /\ resultOrder = << >>
    /\ engineResults = NotCalled
    /\ engineOrder = << >>
    /\ rateArgs = [state |-> "MO"]
    /\ rateRet = NoRateCall
    /\ row \in TransformRows
    /\ categorized = NotCalled
    /\ transformed = NotCalled
    /\ line = << >>
    /\ fields = NotCalled
    /\ csvText = Null
    /\ parsed = NotCalled
    /\ dataPoints = << >>
    /\ aggregated = NotCalled
    /\ topFund = NotCalled
    /\ explanation = NotCalled
    /\ MoreIdle

TransformRowToFund ==
    /\ transformed = NotCalled
    /\ transformed' = Returns(transformRowToFund(row))
    /\ UNCHANGED <<calcVars, rateVars, catVars, csvVars, chartVars, explVars,
                 moreVars>>

NextTransform == TransformRowToFund

SpecTransform == InitTransform /\ [][NextTransform]_vars

(***************************************************************************)
(* Claims about the Fund Category                                          *)
(***************************************************************************)
\* the tax treatment each Fund Category label denotes (DESIGN.md)
FUND_CATEGORIES ==
    (TaxableLabel :> [federalTaxable |-> TRUE, stateTaxable |-> TRUE])
    @@ (TreasuryLabel :> [federalTaxable |-> TRUE, stateTaxable |-> FALSE])
    @@ (MunicipalLabel :> [federalTaxable |-> FALSE, stateTaxable |-> TRUE])
    @@ (StateMunicipalLabel :> [federalTaxable |-> FALSE, stateTaxable |-> FALSE])

\* C11: for every CSV row, the tax treatment the TEY calculation applies to the
\* fund (looked up from the category key transformRowToFund got from
\* categorizeFund) is the treatment the fund's fundCategory label denotes.
C11_LabelIsTreatmentUsed ==
    transformed.kind = "return" =>
        /\ transformed.value.fundCategory \in DOMAIN FUND_CATEGORIES
        /\ treatment(transformed.value.category)
               = FUND_CATEGORIES[transformed.value.fundCategory]

\* the documented first-match-wins procedure: the label of the first rule that matches
ClaimedFundCategory(fundName, csvCategory) ==
    LET name == toLowerCase(fundName)
        category == toLowerCase(csvCategory)
        matches == << includes(name, kw_california) \/ includes(name, kw_new_york),
                      includes(category, kw_tax_exempt) \/ includes(name, kw_municipal),
                      includes(name, kw_us_treasury) \/ includes(name, kw_treasury_obligations) >>
        labels == << StateMunicipalLabel, MunicipalLabel, TreasuryLabel >>
        hit == {i \in 1..3 : matches[i]}
    IN  IF hit = {} THEN TaxableLabel
        ELSE labels[CHOOSE i \in hit : \A j \in hit : i <= j]

\* the name has "treasury" but neither whole treasury phrase
TreasuryWithoutPhrase(fundName) ==
    LET name == toLowerCase(fundName)
    IN  /\ includes(name, kw_treasury)
        /\ ~includes(name, kw_us_treasury)
        /\ ~includes(name, kw_treasury_obligations)

\* an earlier rule (state name, tax-exempt category, municipal name) matches
EarlierRuleMatches(fundName, csvCategory) ==
    LET name == toLowerCase(fundName)
        category == toLowerCase(csvCategory)
    IN  \/ includes(name, kw_california) \/ includes(name, kw_new_york)
        \/ includes(category, kw_tax_exempt) \/ includes(name, kw_municipal)

\* C12 as stated: getFundCategory is the first-match-wins procedure, returns one
\* of the four labels, and every name containing "treasury" without either
\* whole phrase is labelled Taxable.
C12_FundCategoryAsStated ==
    transformed.kind = "return" =>
        LET f == transformed.value
        IN  /\ f.fundCategory = ClaimedFundCategory(f.fundName, f.csvCategory)
            /\ f.fundCategory \in DOMAIN FUND_CATEGORIES
            /\ TreasuryWithoutPhrase(f.fundName) => f.fundCategory = TaxableLabel

\* C12: getFundCategory is the first-match-wins procedure and returns one of
\* the four labels; a name containing "treasury" without either whole phrase
\* is never labelled Treasury, and is labelled Taxable unless an earlier rule
\* (state name, tax-exempt category, municipal name) matches.
C12_FundCategoryProcedure ==
    transformed.kind = "return" =>
        LET f == transformed.value
        IN  /\ f.fundCategory = ClaimedFundCategory(f.fundName, f.csvCategory)
            /\ f.fundCategory \in DOMAIN FUND_CATEGORIES
            /\ TreasuryWithoutPhrase(f.fundName) =>
                   /\ f.fundCategory # TreasuryLabel
                   /\ ~EarlierRuleMatches(f.fundName, f.csvCategory) =>
                          f.fundCategory = TaxableLabel

\* a fund whose name has "treasury" without either phrase, and matches no
\* earlier rule, was labelled Taxable
C12_Witness ==
    /\ transformed.kind = "return"
    /\ TreasuryWithoutPhrase(transformed.value.fundName)
    /\ ~EarlierRuleMatches(transformed.value.fundName, transformed.value.csvCategory)
    /\ transformed.value.fundCategory = TaxableLabel

(***************************************************************************)
(* CSV parsing: cleanValue, parseCSVLine and parseCSV                      *)
(***************************************************************************)
\* the longest line of SpecCsvLine
MaxLineLen == 5

\* trim, then one leading and one trailing quote are removed when both are there
cleanValue(val) ==
    LET value == trim(val)
    IN  IF value # << >> /\ value[1] = "\"" /\ value[Len(value)] = "\""
        THEN SubSeq(value, 2, Len(value) - 1)
        ELSE value

\* mutant of parseCSVLineFrom: every comma ends the field, quoted or not
RECURSIVE parseCSVLineFrom_everyComma(_, _, _, _, _)
parseCSVLineFrom_everyComma(text, i, current, inQuotes, result) ==
    IF i > Len(text) THEN Append(result, cleanValue(current))
    ELSE IF text[i] = "\""
    THEN IF inQuotes /\ i + 1 <= Len(text) /\ text[i + 1] = "\""
         THEN parseCSVLineFrom_everyComma(text, i + 2, Append(current, "\""), inQuotes, result)
         ELSE parseCSVLineFrom_everyComma(text, i + 1, current, ~inQuotes, result)
    ELSE IF text[i] = ","
    THEN parseCSVLineFrom_everyComma(text, i + 1, << >>, inQuotes, Append(result, cleanValue(current)))
    ELSE parseCSVLineFrom_everyComma(text, i + 1, Append(current, text[i]), inQuotes, result)

\* the loop of parseCSVLine from position i on: current is the field being
\* collected, result the fields completed so far
RECURSIVE parseCSVLineFrom(_, _, _, _, _)
parseCSVLineFrom(text, i, current, inQuotes, result) ==
    IF i > Len(text) THEN Append(result, cleanValue(current))
    ELSE IF text[i] = "\""
    THEN IF inQuotes /\ i + 1 <= Len(text) /\ text[i + 1] = "\""
         THEN parseCSVLineFrom(text, i + 2, Append(current, "\""), inQuotes, result)
         ELSE parseCSVLineFrom(text, i + 1, current, ~inQuotes, result)
    ELSE IF text[i] = "," /\ ~inQuotes
    THEN parseCSVLineFrom(text, i + 1, << >>, inQuotes, Append(result, cleanValue(current)))
    ELSE parseCSVLineFrom(text, i + 1, Append(current, text[i]), inQuotes, result)

parseCSVLine(text) == parseCSVLineFrom(text, 1, << >>, FALSE, << >>)

(***************************************************************************)
(* SpecCsvLine: parseCSVLine applied to a line                             *)
(***************************************************************************)
LineAlphabet == {"a", ",", "\"", " "}

\* the lines of the unit tests
TestLines ==
    { << "a", ",", "b", ",", "c" >>,
      << "a", ",", "\"", "b", ",", "c", "\"", ",", "d" >>,
      << "F", "u", "n", "d", " ", "N", "a", "m", "e", ",", "\"", "$", "1", ",", "0", "0", "0", ",", "0", "0", "0", "\"", ",", "4", ".", "5", "2", "%" >>,
      << "a", ",", "\"", "H", "e", " ", "s", "a", "i", "d", " ", "\"", "\"", "h", "e", "l", "l", "o", "\"", "\"", "\"", ",", "c" >>,
      << "a", ",", ",", "c" >>,
      << "a", ",", "\"", "\"", "\"", "h", "e", "l", "l", "o", "\"", "\"", "\"", ",", "c" >> }

Lines == TestLines \cup UNION {[1..n -> LineAlphabet] : n \in 0..MaxLineLen}

InitCsvLine ==
    /\ userProfile = DefaultProfile
    /\ funds = << >>
    /\ results = NotCalled
    /\ resultOrder = << >>
    /\ engineResults = NotCalled
    /\ engineOrder = << >>
    /\ rateArgs = [state |-> "MO"]
    /\ rateRet = NoRateCall
    /\ row = EmptyRow
    /\ categorized = NotCalled
    /\ transformed = NotCalled
    /\ line \in Lines
    /\ fields = NotCalled
    /\ csvText = Null
    /\ parsed = NotCalled
    /\ dataPoints = << >>
    /\ aggregated = NotCalled
    /\ topFund = NotCalled
    /\ explanation = NotCalled
    /\ MoreIdle

ParseCSVLine ==
    /\ fields = NotCalled
    /\ fields' = Returns(parseCSVLine(line))
    /\ UNCHANGED <<calcVars, rateVars, catVars, transformed, line, csvText, parsed,
                   chartVars, explVars,
                 moreVars>>

NextCsvLine == ParseCSVLine

SpecCsvLine == InitCsvLine /\ [][NextCsvLine]_vars

(***************************************************************************)
(* Claims about parseCSVLine                                               *)
(***************************************************************************)
\* how many of the positions lo .. hi of text hold c
CountIn(text, lo, hi, c) == Cardinality({i \in lo..hi : text[i] = c})

\* the quote state in front of position i: on after an odd number of quote
\* characters (an escaped pair leaves it as it was)
QuoteStateOn(text, i) == CountIn(text, 1, i - 1, "\"") % 2 = 1

\* the commas met while the quote state is off
SplitCommas(text) == {i \in 1..Len(text) : text[i] = "," /\ ~QuoteStateOn(text, i)}

\* the k-th part of the line between such commas, as positions lo .. hi
SegmentLo(text, k) ==
    IF k = 1 THEN 1
    ELSE 1 + CHOOSE i \in SplitCommas(text) :
                 Cardinality({j \in SplitCommas(text) : j <= i}) = k - 1

SegmentHi(text, k) ==
    IF k = Cardinality(SplitCommas(text)) + 1 THEN Len(text)
    ELSE (CHOOSE i \in SplitCommas(text) :
              Cardinality({j \in SplitCommas(text) : j <= i}) = k) - 1

\* the doubled quotes of the positions lo .. hi that stand inside a quoted field
EscapedQuotes(text, lo, hi) ==
    {i \in lo..(hi - 1) : text[i] = "\"" /\ text[i + 1] = "\"" /\ QuoteStateOn(text, i)}

\* C13: parseCSVLine splits a line only at the commas met while the quote state
\* is off: it returns 1 + the number of such commas fields, every comma inside a
\* quoted field stays in that field's value, and the wrapping quotes are not
\* part of the value (a field without a doubled quote has no quote in its value).
C13_SplitsAtUnquotedCommas ==
    fields.kind = "return" =>
        /\ Len(fields.value) = 1 + Cardinality(SplitCommas(line))
        /\ \A k \in 1..Len(fields.value) :
              LET lo == SegmentLo(line, k)
                  hi == SegmentHi(line, k)
              IN  /\ CountIn(fields.value[k], 1, Len(fields.value[k]), ",")
                         = CountIn(line, lo, hi, ",")
                  /\ EscapedQuotes(line, lo, hi) = {} =>
                         CountIn(fields.value[k], 1, Len(fields.value[k]), "\"") = 0
        /\ line = << "a", ",", "\"", "b", ",", "c", "\"", ",", "d" >> =>
               fields.value = << << "a" >>, << "b", ",", "c" >>, << "d" >> >>

\* the line of the unit test was split into a, "b,c" and d
C13_Witness ==
    /\ line = << "a", ",", "\"", "b", ",", "c", "\"", ",", "d" >>
    /\ fields = Returns(<< << "a" >>, << "b", ",", "c" >>, << "d" >> >>)

\* C14: inside a quoted field every doubled quote contributes exactly one
\* literal quote character to the field's returned value, wherever in the
\* field it stands, and leaves the quote state as it was.
C14_DoubledQuoteIsOneLiteral ==
    fields.kind = "return" =>
        /\ Len(fields.value) = 1 + Cardinality(SplitCommas(line))
        /\ \A k \in 1..Len(fields.value) :
              CountIn(fields.value[k], 1, Len(fields.value[k]), "\"")
                  = Cardinality(EscapedQuotes(line, SegmentLo(line, k), SegmentHi(line, k)))

(***************************************************************************)
(* parseCSV                                                                *)
(***************************************************************************)
\* the most lines after the header line in a text of SpecCsv
MaxBodyLines == 2

\* a JavaScript string as a value that may also be null
Str(t) == [kind |-> "string", value |-> t]

\* String.prototype.split(/\r?\n/) from position i on
RECURSIVE splitLinesFrom(_, _, _, _)
splitLinesFrom(text, i, current, result) ==
    IF i > Len(text) THEN Append(result, current)
    ELSE IF text[i] = "\n"
    THEN splitLinesFrom(text, i + 1, << >>, Append(result, current))
    ELSE IF text[i] = "\r" /\ i + 1 <= Len(text) /\ text[i + 1] = "\n"
    THEN splitLinesFrom(text, i + 2, << >>, Append(result, current))
    ELSE splitLinesFrom(text, i + 1, Append(current, text[i]), result)

splitLines(text) == splitLinesFrom(text, 1, << >>, << >>)

kw___proto__ == << "_", "_", "p", "r", "o", "t", "o", "_", "_" >>

\* `row[key] = value` on a plain object: the inherited __proto__ setter takes
\* the assignment and ignores a string, every other key becomes (or stays) an
\* own property with the new value
setProperty(r, key, value) ==
    IF key = kw___proto__ THEN r ELSE (key :> value) @@ r

\* headers.forEach from index i on
RECURSIVE rowFrom(_, _, _, _)
rowFrom(headers, values, i, r) ==
    IF i > Len(headers) THEN r
    ELSE rowFrom(headers, values, i + 1,
            setProperty(r, trim(headers[i]), IF i <= Len(values) THEN values[i] ELSE << >>))

\* the loop over lines[i], i >= 1 (positions 2 .. Len(lines) here)
RECURSIVE rowsFrom(_, _, _, _)
rowsFrom(lines, headers, i, result) ==
    IF i > Len(lines) THEN result
    ELSE IF trim(lines[i]) = << >> THEN rowsFrom(lines, headers, i + 1, result)
    ELSE rowsFrom(lines, headers, i + 1,
             Append(result, rowFrom(headers, parseCSVLine(trim(lines[i])), 1, EmptyRow)))

\* mutant of parseCSV: the header line is also taken as a data line
parseCSV_headerAsRow(text) ==
    IF text.kind = "null" \/ text.value = << >> \/ trim(text.value) = << >>
    THEN << >>
    ELSE LET lines == splitLines(text.value)
         IN  rowsFrom(lines, parseCSVLine(lines[1]), 1, << >>)

parseCSV(text) ==
    IF text.kind = "null" \/ text.value = << >> \/ trim(text.value) = << >>
    THEN << >>
    ELSE LET lines == splitLines(text.value)
         IN  rowsFrom(lines, parseCSVLine(lines[1]), 2, << >>)

(***************************************************************************)
(* SpecCsv: parseCSV applied to a text                                     *)
(***************************************************************************)
HeaderLines ==
    { << "a", ",", "b" >>,
      << " ", "a", " ", ",", " ", "b", " " >>,
      << "a" >>,
      << "a", ",", "b", ",", "c" >>,
      << "a", ",", "a" >>,
      << "_", "_", "p", "r", "o", "t", "o", "_", "_", ",", "a" >>,
      << "\"", "a", ",", "b", "\"", ",", "c" >>,
      << >> }

BodyLines ==
    { << "1", ",", "2" >>,
      << "1" >>,
      << "1", ",", "2", ",", "3" >>,
      << >>,
      << " ", " " >>,
      << " ", "1", " ", ",", " ", "2", " " >>,
      << "\"", "1", ",", "2", "\"", ",", "3" >> }

LineEnds == { << "\n" >>, << "\r", "\n" >> }

RECURSIVE joinLines(_, _)
joinLines(ls, sep) ==
    IF ls = << >> THEN << >> ELSE sep \o Head(ls) \o joinLines(Tail(ls), sep)

\* null, empty and blank texts, and a header line followed by up to
\* MaxBodyLines lines, every line end LF or every line end CRLF, with or
\* without a line end after the last line
CsvTexts ==
    { Null, Str(<< >>), Str(<< " ", " ", " " >>), Str(<< "\n" >>),
      Str(<< " ", "\r", "\n", "\t" >>) }
    \cup
    { Str(h \o joinLines(b, sep) \o last) :
        h \in HeaderLines,
        b \in UNION {[1..n -> BodyLines] : n \in 0..MaxBodyLines},
        sep \in LineEnds,
        last \in {<< >>} \cup LineEnds }

InitCsv ==
    /\ userProfile = DefaultProfile
    /\ funds = << >>
    /\ results = NotCalled
    /\ resultOrder = << >>
    /\ engineResults = NotCalled
    /\ engineOrder = << >>
    /\ rateArgs = [state |-> "MO"]
    /\ rateRet = NoRateCall
    /\ row = EmptyRow
    /\ categorized = NotCalled
    /\ transformed = NotCalled
    /\ line = << >>
    /\ fields = NotCalled
    /\ csvText \in CsvTexts
    /\ parsed = NotCalled
    /\ dataPoints = << >>
    /\ aggregated = NotCalled
    /\ topFund = NotCalled
    /\ explanation = NotCalled
    /\ MoreIdle

ParseCSV ==
    /\ parsed = NotCalled
    /\ parsed' = Returns(parseCSV(csvText))
    /\ UNCHANGED <<calcVars, rateVars, catVars, transformed, line, fields, csvText,
                   chartVars, explVars,
                 moreVars>>

NextCsv == ParseCSV

SpecCsv == InitCsv /\ [][NextCsv]_vars

(***************************************************************************)
(* Claims about parseCSV                                                   *)
(***************************************************************************)
\* the text is neither null nor blank
HasContent(text) == text.kind = "string" /\ trim(text.value) # << >>

\* the lines of a text: the parts between line feeds, without the white space
\* at their ends (a carriage return in front of the line feed is such space)
RECURSIVE LfLinesFrom(_, _, _, _)
LfLinesFrom(text, i, current, result) ==
    IF i > Len(text) THEN Append(result, trim(current))
    ELSE IF text[i] = "\n"
    THEN LfLinesFrom(text, i + 1, << >>, Append(result, trim(current)))
    ELSE LfLinesFrom(text, i + 1, Append(current, text[i]), result)

LfLines(text) == LfLinesFrom(text, 1, << >>, << >>)

NonBlank(l) == l # << >>

\* the non-blank lines after the first line
BodyOf(text) == SelectSeq(Tail(LfLines(text)), NonBlank)

\* the trimmed header names
HeaderNames(text) ==
    LET hs == parseCSVLine(Head(LfLines(text)))
    IN  [i \in 1..Len(hs) |-> trim(hs[i])]

\* C15: parseCSV returns one row per non-blank line after the header line, in
\* file order, for LF and CRLF alike; every row has exactly the trimmed header
\* names as its keys, and key i maps to the i-th parsed value of the line, or
\* to the empty string when the line has fewer values.
C15_OneRowPerLine ==
    (parsed.kind = "return" /\ HasContent(csvText)) =>
        LET names == HeaderNames(csvText.value)
            body == BodyOf(csvText.value)
        IN  /\ Len(parsed.value) = Len(body)
            /\ \A k \in 1..Len(body) :
                  LET values == parseCSVLine(body[k])
                  IN  /\ DOMAIN parsed.value[k] = {names[i] : i \in 1..Len(names)}
                      /\ \A i \in 1..Len(names) :
                            parsed.value[k][names[i]]
                                = IF i <= Len(values) THEN values[i] ELSE << >>

(***************************************************************************)
(* Chart data: parseDateMMDDYYYY and aggregateChartData                    *)
(***************************************************************************)
\* the most data points in an input of SpecChart
MaxPoints == 3

\* String.prototype.split(c) from position i on
RECURSIVE splitFrom(_, _, _, _, _)
splitFrom(text, c, i, current, result) ==
    IF i > Len(text) THEN Append(result, current)
    ELSE IF text[i] = c THEN splitFrom(text, c, i + 1, << >>, Append(result, current))
    ELSE splitFrom(text, c, i + 1, Append(current, text[i]), result)

\* parseInt of a text that starts with a digit: the number its leading digits write
parseInt(text) == digitsValue(text, 1, digitsEnd(text, 1))

isLeapYear(y) == (y % 4 = 0 /\ y % 100 # 0) \/ y % 400 = 0

\* days of a common year in front of each month
daysBeforeMonth == << 0, 31, 59, 90, 120, 151, 181, 212, 243, 273, 304, 334 >>

\* new Date(year, monthIndex, day) as a day count: a month index outside
\* 0..11 carries into the year, a day outside the month into the next months
dateOf(year, monthIndex, day) ==
    LET y == year + (monthIndex \div 12)
        m == monthIndex % 12
    IN  365 * (y - 1) + ((y - 1) \div 4) - ((y - 1) \div 100) + ((y - 1) \div 400)
        + daysBeforeMonth[m + 1] + (IF isLeapYear(y) /\ m >= 2 THEN 1 ELSE 0)
        + day

\* mutant of parseDateMMDDYYYY: the month counts most, then the day, then the year
parseDateMMDDYYYY_monthFirst(dateStr) ==
    LET parts == splitFrom(dateStr, "-", 1, << >>, << >>)
    IN  (parseInt(parts[1]) * 100 + parseInt(parts[2])) * 10000 + parseInt(parts[3])

parseDateMMDDYYYY(dateStr) ==
    LET parts == splitFrom(dateStr, "-", 1, << >>, << >>)
    IN  dateOf(parseInt(parts[3]), parseInt(parts[1]) - 1, parseInt(parts[2]))

\* [...new Set(values)]: the distinct values in the order of their first occurrence
RECURSIVE uniqueFrom(_, _, _)
uniqueFrom(values, i, result) ==
    IF i > Len(values) THEN result
    ELSE IF \E j \in 1..Len(result) : result[j] = values[i]
    THEN uniqueFrom(values, i + 1, result)
    ELSE uniqueFrom(values, i + 1, Append(result, values[i]))

\* Array.prototype.sort with (a, b) => parseDateMMDDYYYY(a) - parseDateMMDDYYYY(b):
\* d goes in front of the first date that is later than it (the sort is stable)
RECURSIVE insertDate(_, _)
insertDate(sorted, d) ==
    IF sorted = << >> THEN << d >>
    ELSE IF parseDateMMDDYYYY(d) - parseDateMMDDYYYY(Head(sorted)) < 0
    THEN << d >> \o sorted
    ELSE << Head(sorted) >> \o insertDate(Tail(sorted), d)

RECURSIVE sortDates(_, _)
sortDates(values, n) ==
    IF n = 0 THEN << >> ELSE insertDate(sortDates(values, n - 1), values[n])

\* entries.reduce((acc, curr) => acc + curr.netYield, 0)
RECURSIVE sumNetYield(_)
sumNetYield(entries) ==
    IF entries = << >> THEN 0 ELSE Head(entries).netYield + sumNetYield(Tail(entries))

\* mutant of averageAt: 0 where there are no entries
averageAt_zeroForMissing(points, category, date) ==
    LET Matches(d) == d.category = category /\ d.date = date
        entries == SelectSeq(points, Matches)
    IN  IF Len(entries) = 0 THEN Zero
        ELSE Number(Rat(sumNetYield(entries), Len(entries)))

\* the slot of a category at a date: null without entries, else their mean
averageAt(points, category, date) ==
    LET Matches(d) == d.category = category /\ d.date = date
        entries == SelectSeq(points, Matches)
    IN  IF Len(entries) = 0 THEN Null
        ELSE Number(Rat(sumNetYield(entries), Len(entries)))

aggregateChartData(points) ==
    IF Len(points) = 0 THEN [dates |-> << >>, categoryAverages |-> EmptyRow]
    ELSE LET distinct == uniqueFrom([i \in 1..Len(points) |-> points[i].date], 1, << >>)
             dates == sortDates(distinct, Len(distinct))
             categories == {points[i].category : i \in 1..Len(points)}
         IN  [dates |-> dates,
              categoryAverages |->
                  [c \in categories |->
                      [i \in 1..Len(dates) |-> averageAt(points, c, dates[i])]]]

(***************************************************************************)
(* SpecChart: aggregateChartData applied to a list of data points          *)
(***************************************************************************)
\* snapshot dates as the scraper writes them (MM-DD-YYYY, zero padded): the
\* three of the unit tests
ChartDates ==
    { << "1", "2", "-", "2", "2", "-", "2", "0", "2", "5" >>,
      << "1", "2", "-", "3", "1", "-", "2", "0", "2", "5" >>,
      << "0", "1", "-", "1", "3", "-", "2", "0", "2", "6" >> }

\* net yields in hundredths of a percentage point
ChartYields == {0, 400, 500}

ChartPoints ==
    [category : {TaxableLabel, TreasuryLabel}, date : ChartDates, netYield : ChartYields]

InitChart ==
    /\ userProfile = DefaultProfile
    /\ funds = << >>
    /\ results = NotCalled
    /\ resultOrder = << >>
    /\ engineResults = NotCalled
    /\ engineOrder = << >>
    /\ rateArgs = [state |-> "MO"]
    /\ rateRet = NoRateCall
    /\ row = EmptyRow
    /\ categorized = NotCalled
    /\ transformed = NotCalled
    /\ line = << >>
    /\ fields = NotCalled
    /\ csvText = Null
    /\ parsed = NotCalled
    /\ dataPoints \in UNION {[1..n -> ChartPoints] : n \in 0..MaxPoints}
    /\ aggregated = NotCalled
    /\ topFund = NotCalled
    /\ explanation = NotCalled
    /\ MoreIdle

AggregateChartData ==
    /\ aggregated = NotCalled
    /\ aggregated' = Returns(aggregateChartData(dataPoints))
    /\ UNCHANGED <<calcVars, rateVars, catVars, transformed, csvVars, dataPoints, explVars,
                 moreVars>>

NextChart == AggregateChartData

SpecChart == InitChart /\ [][NextChart]_vars

(***************************************************************************)
(* Claims about aggregateChartData                                         *)
(***************************************************************************)
\* the input points of a category at a date
PointsAt(category, date) ==
    {i \in 1..Len(dataPoints) :
        dataPoints[i].category = category /\ dataPoints[i].date = date}

RECURSIVE SumOfYields(_)
SumOfYields(S) ==
    IF S = {} THEN 0
    ELSE LET i == CHOOSE j \in S : TRUE
         IN  dataPoints[i].netYield + SumOfYields(S \ {i})

\* C18: every category's array is as long as the returned dates; slot i is null
\* exactly when no input point has that category and date dates[i], and is
\* otherwise the arithmetic mean of netYield over exactly those points, so
\* that a zero average never stands for missing data.
C18_SlotsAlignedNullForMissing ==
    aggregated.kind = "return" =>
        LET dates == aggregated.value.dates
            averages == aggregated.value.categoryAverages
        IN  \A c \in DOMAIN averages :
                /\ Len(averages[c]) = Len(dates)
                /\ \A i \in 1..Len(dates) :
                      LET S == PointsAt(c, dates[i])
                          slot == averages[c][i]
                      IN  /\ (slot = Null) <=> (S = {})
                          /\ S # {} =>
                                /\ slot.kind = "number"
                                /\ slot.value.num * Cardinality(S)
                                       = SumOfYields(S) * slot.value.den

\* one category has a mean of two different yields and then no data, another
\* has no data and then a mean of zero
C18_Witness ==
    /\ aggregated.kind = "return"
    /\ Len(aggregated.value.dates) = 2
    /\ DOMAIN aggregated.value.categoryAverages = {TaxableLabel, TreasuryLabel}
    /\ aggregated.value.categoryAverages[TaxableLabel] = << Number(Rat(450, 1)), Null >>
    /\ aggregated.value.categoryAverages[TreasuryLabel] = << Null, Zero >>

\* year, month and day of an MM-DD-YYYY text as one number that orders dates
\* by year, then month, then day
CalendarKey(date) ==
    digitsValue(date, 7, 11) * 10000 + digitsValue(date, 1, 3) * 100 + digitsValue(date, 4, 6)

SmallCsvTexts ==
    { Null, Str(<< >>), Str(<< " ", " ", " " >>), Str(<< "\n" >>),
      Str(<< " ", "\r", "\n", "\t" >>),
      Str(<< "H", "e", "a", "d", "e", "r", "1", ",", "H", "e", "a", "d", "e", "r", "2", ",", "H", "e", "a", "d", "e", "r", "3" >>),
      Str(<< "a", ",", "b", "\n" >>),
      Str(<< "a", ",", "b", "\r", "\n", " ", " ", "\r", "\n" >>),
      Str(<< "a", ",", "b", "\n", "1", ",", "2" >>) }

InitEmptyInput ==
    /\ userProfile \in {p \in Profiles : p.income = 200000 /\ p.state = "MO"}
    /\ funds \in UNION {[1..n -> FundUniverse] : n \in 0..1}
    /\ results = NotCalled
    /\ resultOrder = << >>
    /\ engineResults = NotCalled
    /\ engineOrder = << >>
    /\ rateArgs = [state |-> "MO"]
    /\ rateRet = NoRateCall
    /\ row = EmptyRow
    /\ categorized = NotCalled
    /\ transformed = NotCalled
    /\ line = << >>
    /\ fields = NotCalled
    /\ csvText \in SmallCsvTexts
    /\ parsed = NotCalled
    /\ dataPoints \in {<< >>} \cup {<< p >> : p \in {q \in ChartPoints : q.netYield = 400}}
    /\ aggregated = NotCalled
    /\ topFund = NotCalled
    /\ explanation = NotCalled
    /\ MoreIdle

NextEmptyInput ==
    \/ ParseCSV
    \/ CalculateAllFunds
    \/ EngineCalculateAllFunds
    \/ AggregateChartData

SpecEmptyInput == InitEmptyInput /\ [][NextEmptyInput]_vars

\* the text is null, empty, blank, or has no non-blank line after its first line
NoDataLines(text) == ~HasContent(text) \/ BodyOf(text.value) = << >>

\* C16: empty input yields empty output and no error: parseCSV returns an empty
\* sequence for null, empty, whitespace-only and header-only text,
\* calculateAllFunds([], profile) returns an empty sequence, and
\* aggregateChartData([]) returns no dates and no category series.
C16_EmptyInEmptyOut ==
    /\ (parsed # NotCalled /\ NoDataLines(csvText)) => parsed = Returns(<< >>)
    /\ (results # NotCalled /\ funds = << >>) => results = Returns(<< >>)
    /\ (engineResults # NotCalled /\ funds = << >>) => engineResults = Returns(<< >>)
    /\ (aggregated # NotCalled /\ dataPoints = << >>) =>
           /\ aggregated.kind = "return"
           /\ aggregated.value.dates = << >>
           /\ DOMAIN aggregated.value.categoryAverages = {}

\* all three were called on empty input, the text being header-only and the
\* profile one whose filing status no bracket table has
C16_Witness ==
    /\ csvText = Str(<< "H", "e", "a", "d", "e", "r", "1", ",", "H", "e", "a", "d", "e", "r", "2", ",", "H", "e", "a", "d", "e", "r", "3" >>)
    /\ parsed = Returns(<< >>)
    /\ funds = << >>
    /\ userProfile.filingStatus = "constructor"
    /\ results = Returns(<< >>)
    /\ engineResults = Returns(<< >>)
    /\ dataPoints = << >>
    /\ aggregated.kind = "return"
    /\ aggregated.value.dates = << >>

(***************************************************************************)
(* Claims about transformRowToFund on malformed rows                       *)
(***************************************************************************)
\* the value under the first of the candidate keys that is present in the
\* row, the empty string when none is
FirstPresent(r, keys) ==
    LET present == {i \in 1..Len(keys) : keys[i] \in DOMAIN r}
    IN  IF present = {} THEN << >>
        ELSE r[keys[CHOOSE i \in present : \A j \in present : i <= j]]

GrossYieldKeys == << "7-Day Yield (with waivers)", "7DayYieldWithWaivers" >>

ExpenseRatioKeys == << "Net Expense Ratio", "NetExpenseRatio", "Expense Ratio" >>

\* the cell is absent (read as the empty string), empty, or has no digit in it
AbsentEmptyOrNotNumeric(cell) == \A i \in 1..Len(cell) : ~IsDigit(cell[i])

\* C17: transformRowToFund never throws on a row with any subset of the
\* expected columns: each text field is the value under the first candidate
\* key present in the row, or the empty string; grossYield and expenseRatio are
\* finite numbers, and are 0 when the field is absent, empty or not numeric.
C17_MalformedRowDefaults ==
    transformed # NotCalled =>
        /\ transformed.kind = "return"
        /\ LET f == transformed.value
           IN  /\ f.fundName = FirstPresent(row, << "Fund Name", "FundName" >>)
               /\ f.symbol = FirstPresent(row, << "Ticker", "Symbol" >>)
               /\ f.minimumInvestment = FirstPresent(row,
                      << "Minimum Initial Investment", "MinimumInitialInvestment" >>)
               /\ f.eligibleInvestors = FirstPresent(row,
                      << "Eligible Investors", "EligibleInvestors" >>)
               /\ f.grossYield.kind = "number"
               /\ f.expenseRatio.kind = "number"
               /\ AbsentEmptyOrNotNumeric(FirstPresent(row, GrossYieldKeys)) =>
                      f.grossYield = Zero
               /\ AbsentEmptyOrNotNumeric(FirstPresent(row, ExpenseRatioKeys)) =>
                      f.expenseRatio = Zero

(***************************************************************************)
(* Recommendation explanation                                              *)
(***************************************************************************)
\* the description of each TAX_TREATMENT entry of the frontend
TAX_TREATMENT_description ==
    [taxable |-> "Fully taxable at both federal and state levels",
     treasury |-> "Federal taxable, but state tax-free",
     municipal |-> "Federal tax-free, may be state taxable",
     sweep |-> "Fully taxable sweep fund for automatic cash management",
     etf |-> "Fully taxable ETF with exchange-traded flexibility"]
    @@ ("state-municipal" :> "Tax-free at both levels (for residents only)")

\* docs copy (docs/js/tax-calculator.js): the table is keyed by the feed's
\* category names
Docs_TAX_TREATMENT ==
    ("Taxable Money Funds" :>
        [federalTaxable |-> TRUE, stateTaxable |-> TRUE,
         description |-> "Subject to both Federal and State income tax"])
    @@ ("Treasury Money Funds" :>
        [federalTaxable |-> TRUE, stateTaxable |-> FALSE,
         description |-> "Subject to Federal tax, but exempt from State income tax"])
    @@ ("Tax-Exempt Money Funds" :>
        [federalTaxable |-> FALSE, stateTaxable |-> TRUE,
         description |-> "Exempt from Federal tax, but subject to State income tax"])
    @@ ("State-Specific" :>
        [federalTaxable |-> FALSE, stateTaxable |-> FALSE,
         description |-> "Exempt from both Federal and State income tax"])

\* docs copy: the treatment of an unknown category is that of 'Taxable Money
\* Funds' (an inherited name finds a built-in with neither flag), the net
\* yield is the gross yield, and the division is applied to every category
Docs_calculateTaxEquivalentYield(fund, profile) ==
    LET federal == Docs_calculateFederalMarginalRate(profile.income, profile.filingStatus)
    IN  IF federal.kind = "throw" THEN Throws
        ELSE
          LET federalRate == federal.value
              stateRate == Docs_calculateStateMarginalRate(profile.state)
              t == IF HasOwn(Docs_TAX_TREATMENT, fund.category)
                   THEN Docs_TAX_TREATMENT[fund.category]
                   ELSE IF Inherits(Docs_TAX_TREATMENT, fund.category)
                   THEN [federalTaxable |-> FALSE, stateTaxable |-> FALSE]
                   ELSE Docs_TAX_TREATMENT["Taxable Money Funds"]
              effectiveTaxRate ==
                  (IF t.federalTaxable THEN federalRate * RateUnit ELSE 0)
                  + (IF t.stateTaxable THEN stateRate * (RateUnit - federalRate) ELSE 0)
              netYield == fund.grossYield
              tey == Rat(netYield * EffUnit, EffUnit - effectiveTaxRate)
          IN  Returns([fundName |-> fund.fundName,
                       symbol |-> fund.symbol,
                       category |-> fund.category,
                       grossYield |-> fund.grossYield,
                       expenseRatio |-> fund.expenseRatio,
                       netYield |-> netYield,
                       taxEquivalentYield |-> tey,
                       annualReturn |-> annualReturn(tey)])

Docs_calculateAllFunds(fundList, profile) ==
    LET mapped == [i \in 1..Len(fundList) |->
                      Docs_calculateTaxEquivalentYield(fundList[i], profile)]
    IN  IF \E i \in 1..Len(fundList) : mapped[i].kind = "throw"
        THEN [out |-> Throws, order |-> << >>]
        ELSE LET rs == [i \in 1..Len(fundList) |-> mapped[i].value]
                 order == sortOrder(rs, Len(rs))
             IN  [out |-> Returns([i \in 1..Len(rs) |-> rs[order[i]]]),
                  order |-> order]

\* category.replace("-", " ") on the category keys
displayCategory(category) ==
    IF category = "state-municipal" THEN "state municipal" ELSE category

\* Number.prototype.toFixed: the fraction q times `units`, rounded to the
\* nearest integer, halves away from zero
toFixed(q, units) ==
    LET n == Abs(q.num) * units
        r == (2 * n + q.den) \div (2 * q.den)
    IN  IF q.num < 0 THEN -r ELSE r

\* ((taxEquivalentYield - netYield) / taxEquivalentYield * 100).toFixed(1), in
\* tenths of a percent; 0 / 0 is NaN
taxSavings(netYield, tey) ==
    IF tey.num = 0 THEN NaN
    ELSE LET n == tey.num - netYield * tey.den
             gain == IF tey.num < 0 THEN Rat(-n, -tey.num) ELSE Rat(n, tey.num)
         IN  Number(toFixed(gain, 1000))

\* what the text says after its first sentence, part by part (rates in tenths
\* of a percent, yields in hundredths of a percentage point, as printed)
explanationParts(description, effectiveTaxRate, netYield, tey) ==
    IF effectiveTaxRate > 0
    THEN << [part |-> "description", text |-> description],
            [part |-> "effective tax rate",
             tenths |-> toFixed(Rat(effectiveTaxRate, EffUnit), 1000)],
            [part |-> "equivalent yield",
             netYield |-> toFixed(Rat(netYield, 1), 1), tey |-> toFixed(tey, 1)] >>
         \o (IF taxSavings(netYield, tey) # NaN /\ taxSavings(netYield, tey).value > 0
             THEN << [part |-> "tax efficiency",
                      tenths |-> taxSavings(netYield, tey).value] >>
             ELSE << >>)
    ELSE << [part |-> "description", text |-> description],
            [part |-> "full yield", netYield |-> toFixed(Rat(netYield, 1), 1)] >>

\* frontend: TAX_TREATMENT[category] without a fallback; reading the
\* description of undefined throws, that of an inherited built-in is undefined
getRecommendationExplanation(top, profile) ==
    IF ~HasOwn(TAX_TREATMENT_description, top.category)
       /\ ~Inherits(TAX_TREATMENT_description, top.category)
    THEN Throws
    ELSE Returns(
           << [part |-> "best after-tax return", category |-> displayCategory(top.category)] >>
           \o explanationParts(
                  IF HasOwn(TAX_TREATMENT_description, top.category)
                  THEN TAX_TREATMENT_description[top.category] ELSE "undefined",
                  top.effectiveTaxRate, top.netYield, top.taxEquivalentYield))

\* docs copy: `TAX_TREATMENT[category] || TAX_TREATMENT.taxable`, where the
\* table has no key taxable; the results of the docs calculator carry no
\* effectiveTaxRate, and `undefined > 0` is false
Docs_getRecommendationExplanation(top, profile) ==
    IF ~HasOwn(Docs_TAX_TREATMENT, top.category)
       /\ ~Inherits(Docs_TAX_TREATMENT, top.category)
    THEN Throws
    ELSE Returns(
           << [part |-> "best after-tax return", category |-> displayCategory(top.category),
               state |-> profile.state] >>
           \o explanationParts(
                  IF HasOwn(Docs_TAX_TREATMENT, top.category)
                  THEN Docs_TAX_TREATMENT[top.category].description ELSE "undefined",
                  IF "effectiveTaxRate" \in DOMAIN top THEN top.effectiveTaxRate ELSE 0,
                  top.netYield, top.taxEquivalentYield))

(***************************************************************************)
(* SpecExplain: the top-ranked fund and its explanation                    *)
(***************************************************************************)
InitExplain ==
    /\ userProfile \in Profiles
    /\ funds \in UNION {[1..n -> FundUniverse] : n \in 1..2}
    /\ results = NotCalled
    /\ resultOrder = << >>
    /\ engineResults = NotCalled
    /\ engineOrder = << >>
    /\ rateArgs = [state |-> "MO"]
    /\ rateRet = NoRateCall
    /\ row = EmptyRow
    /\ categorized = NotCalled
    /\ transformed = NotCalled
    /\ line = << >>
    /\ fields = NotCalled
    /\ csvText = Null
    /\ parsed = NotCalled
    /\ dataPoints = << >>
    /\ aggregated = NotCalled
    /\ topFund = NotCalled
    /\ explanation = NotCalled
    /\ MoreIdle

\* displayRecommendation of the app: the first of the calculated results
GetRecommendationExplanation ==
    /\ explanation = NotCalled
    /\ results.kind = "return"
    /\ Len(results.value) > 0
    /\ topFund' = Returns(results.value[1])
    /\ explanation' = [copy |-> "frontend",
                       out |-> getRecommendationExplanation(results.value[1], userProfile)]
    /\ UNCHANGED <<calcVars, rateVars, catVars, transformed, csvVars, chartVars,
                 moreVars>>

\* calculateAndDisplay and displayRecommendation of the docs app
DocsGetRecommendationExplanation ==
    /\ explanation = NotCalled
    /\ LET r == Docs_calculateAllFunds(funds, userProfile).out
       IN  /\ r.kind = "return"
           /\ Len(r.value) > 0
           /\ topFund' = Returns(r.value[1])
           /\ explanation' = [copy |-> "docs",
                              out |-> Docs_getRecommendationExplanation(r.value[1], userProfile)]
    /\ UNCHANGED <<calcVars, rateVars, catVars, transformed, csvVars, chartVars,
                 moreVars>>

NextExplain ==
    \/ CalculateAllFunds
    \/ GetRecommendationExplanation
    \/ DocsGetRecommendationExplanation

SpecExplain == InitExplain /\ [][NextExplain]_vars

\* the tax description of the category in the copy that was called
DescriptionOf(copy, category) ==
    IF copy = "frontend" THEN TAX_TREATMENT_description[category]
    ELSE Docs_TAX_TREATMENT[category].description

\* t tenths of a percent is (taxEquivalentYield - netYield) / taxEquivalentYield
\* * 100 to one decimal
IsGainOf(t, top) ==
    /\ top.taxEquivalentYield.num # 0
    /\ LET n == top.taxEquivalentYield.num - top.netYield * top.taxEquivalentYield.den
           g == IF top.taxEquivalentYield.num < 0
                THEN Rat(-n, -top.taxEquivalentYield.num)
                ELSE Rat(n, top.taxEquivalentYield.num)
       IN  2 * Abs(1000 * g.num - t * g.den) <= g.den

\* C20: getRecommendationExplanation returns a string that contains the tax
\* description of the top-ranked fund's category and, whenever the fund's
\* effectiveTaxRate is greater than 0, also states the percentage gain
\* (taxEquivalentYield - netYield) / taxEquivalentYield * 100, for a fund of
\* any category.
C20_ExplanationStatesGain ==
    explanation # NotCalled =>
        /\ explanation.out.kind = "return"
        /\ LET top == topFund.value
               parts == explanation.out.value
           IN  /\ \E i \in 1..Len(parts) :
                     /\ parts[i].part = "description"
                     /\ parts[i].text = DescriptionOf(explanation.copy, top.category)
               /\ ("effectiveTaxRate" \in DOMAIN top /\ top.effectiveTaxRate > 0) =>
                     \E i \in 1..Len(parts) :
                         /\ parts[i].part = "tax efficiency"
                         /\ IsGainOf(parts[i].tenths, top)

(***************************************************************************)
(* Claims on the agreement of the copies                                   *)
(***************************************************************************)
\* the fields of a result that the two calculators are compared on
SameCalculation(a, b) ==
    /\ a.netYield = b.netYield
    /\ a.effectiveTaxRate = b.effectiveTaxRate
    /\ a.taxEquivalentYield = b.taxEquivalentYield
    /\ a.annualReturn = b.annualReturn

\* C21: the backend tax engine and the frontend tax calculator implement the
\* same logic: for every fund of the six category keys and every profile the
\* two calculateTaxEquivalentYield return the same netYield,
\* effectiveTaxRate, taxEquivalentYield and annualReturn, and the two
\* calculateAllFunds rank the funds in the same order.
C21_BackendMirrorsFrontend ==
    (results # NotCalled /\ engineResults # NotCalled) =>
        /\ results.kind = engineResults.kind
        /\ results.kind = "return" =>
              /\ resultOrder = engineOrder
              /\ \A i \in 1..Len(funds) :
                    LET a == calculateTaxEquivalentYield(funds[i], userProfile)
                        b == Engine_calculateTaxEquivalentYield(funds[i], userProfile)
                    IN  SameCalculation(a.value, b.value)

(***************************************************************************)
(* Arrays and objects by reference: sortCsvFilesByDate and                 *)
(* calculateAllFunds on the heap                                           *)
(***************************************************************************)
\* the most entries in a list of CSV files
MaxFiles == 3

\* the most calls in a behaviour of SpecPure
MaxCalls == 2

\* the elements of array a, as values
elementsOf(h, a) == [i \in 1..Len(h.arrays[a]) |-> h.objects[h.arrays[a][i]]]

\* a new array (an array literal, a spread, the result of map) of the
\* elements refs; its reference is Len(arrays) afterwards
newArray(h, refs) == [h EXCEPT !.arrays = Append(@, refs)]

\* new objects (object literals) with the fields records
newObjects(h, records) == [h EXCEPT !.objects = @ \o records]

\* mutant of compareByDate: oldest first
compareByDate_oldestFirst(a, b) == parseDateMMDDYYYY(a.date) - parseDateMMDDYYYY(b.date)

\* (a, b) => parseDateMMDDYYYY(b.date) - parseDateMMDDYYYY(a.date)
compareByDate(a, b) == parseDateMMDDYYYY(b.date) - parseDateMMDDYYYY(a.date)

\* Array.prototype.sort(compareByDate) on references, which is stable: x goes
\* in front of the first element the comparator places after it
RECURSIVE insertByDate(_, _, _)
insertByDate(h, sorted, x) ==
    IF sorted = << >> THEN << x >>
    ELSE IF compareByDate(h.objects[x], h.objects[Head(sorted)]) < 0
    THEN << x >> \o sorted
    ELSE << Head(sorted) >> \o insertByDate(h, Tail(sorted), x)

RECURSIVE sortByDate(_, _, _)
sortByDate(h, refs, n) ==
    IF n = 0 THEN << >> ELSE insertByDate(h, sortByDate(h, refs, n - 1), refs[n])

\* mutant of sortCsvFilesByDate: csvList.sort(...), without the copy
sortCsvFilesByDate_inPlace(h, a) ==
    [heap |-> [h EXCEPT !.arrays[a] = sortByDate(h, h.arrays[a], Len(h.arrays[a]))],
     ret |-> a]

\* [...csvList].sort(...): the copy is a new array of the same objects and
\* is sorted in place; [heap, ret] are the heap afterwards and the
\* reference returned
sortCsvFilesByDate(h, a) ==
    LET h1 == newArray(h, h.arrays[a])
        copy == Len(h1.arrays)
    IN  [heap |-> [h1 EXCEPT !.arrays[copy] = sortByDate(h1, h1.arrays[copy],
                                                        Len(h1.arrays[copy]))],
         ret |-> copy]

\* the heap after funds.map(...).sort(...) with outcome r of calculateAllFunds:
\* map creates one result object per fund, in the order of the funds, and a
\* new array, which sort rearranges (r.order[k] is the index of the fund whose
\* result is r.out.value[k])
resultsOnHeap(h, r) ==
    IF r.out.kind = "throw" THEN [heap |-> h, ret |-> Throws]
    ELSE [heap |-> newArray(
                     newObjects(h, [i \in 1..Len(r.order) |->
                                      r.out.value[CHOOSE k \in 1..Len(r.order) :
                                                      r.order[k] = i]]),
                     [k \in 1..Len(r.order) |-> Len(h.objects) + r.order[k]]),
          ret |-> Returns(Len(h.arrays) + 1)]

\* frontend calculateAllFunds on the heap: funds.map builds a new array of
\* new result objects, one per fund in the order of funds, and sort orders
\* that array in place; ret is Throws or the reference returned
calculateAllFundsOn(h, a, profile) ==
    CHOOSE ret \in {resultsOnHeap(h, r) :
                       r \in {calculateAllFunds(elementsOf(h, a), profile)}} : TRUE

(***************************************************************************)
(* SpecPure: up to MaxCalls calls of sortCsvFilesByDate, calculateAllFunds, *)
(* categorizeFund and calculateTaxEquivalentYield on the same inputs       *)
(***************************************************************************)
\* entries of the CSV manifest: the files of the unit tests, and a second
\* file of a date
CsvFiles ==
    { [name |-> "schwab_money_funds_12-22-2025.csv", date |-> << "1", "2", "-", "2", "2", "-", "2", "0", "2", "5" >>],
      [name |-> "schwab_money_funds_01-13-2026.csv", date |-> << "0", "1", "-", "1", "3", "-", "2", "0", "2", "6" >>],
      [name |-> "schwab_money_funds_12-31-2025.csv", date |-> << "1", "2", "-", "3", "1", "-", "2", "0", "2", "5" >>],
      [name |-> "a.csv", date |-> << "1", "2", "-", "2", "2", "-", "2", "0", "2", "5" >>] }

\* the manifests: no file is listed twice
CsvLists ==
    UNION { {l \in [1..n -> CsvFiles] : \A i, j \in 1..n : i # j => l[i] # l[j]} :
            n \in 0..MaxFiles }

\* fund lists of SpecPure: a taxable and a treasury fund
PureFunds == {f \in FundUniverse : f.category \in {"taxable", "treasury"}}

PureFundLists == UNION { [1..n -> PureFunds] : n \in 0..2 }

PureRow ==
    "Category" :> << "T", "r", "e", "a", "s", "u", "r", "y", " ", "M", "o", "n", "e", "y", " ", "F", "u", "n", "d", "s" >>

\* the reference of the array csvList and of the array funds
CsvListRef == 1

FundsRef == 2

InitPure ==
    /\ userProfile \in {DefaultProfile,
                        [income |-> 0, filingStatus |-> "constructor", state |-> "ZZ"]}
    /\ funds \in PureFundLists
    /\ results = NotCalled
    /\ resultOrder = << >>
    /\ engineResults = NotCalled
    /\ engineOrder = << >>
    /\ rateArgs = [state |-> "MO"]
    /\ rateRet = NoRateCall
    /\ row = PureRow
    /\ categorized = NotCalled
    /\ transformed = NotCalled
    /\ line = << >>
    /\ fields = NotCalled
    /\ csvText = Null
    /\ parsed = NotCalled
    /\ dataPoints = << >>
    /\ aggregated = NotCalled
    /\ topFund = NotCalled
    /\ explanation = NotCalled
    /\ csvList \in CsvLists
    /\ heap = [arrays |-> << [i \in 1..Len(csvList) |-> i],
                             [i \in 1..Len(funds) |-> Len(csvList) + i] >>,
               objects |-> csvList \o funds]
    /\ calls = << >>
    /\ NotPureIdle

\* sortCsvFilesByDate(csvList)
CallSortCsvFilesByDate ==
    /\ Len(calls) < MaxCalls
    /\ \E r \in {sortCsvFilesByDate(heap, CsvListRef)} :
          /\ heap' = r.heap
          /\ calls' = Append(calls, [fn |-> "sortCsvFilesByDate",
                                     ret |-> r.ret,
                                     out |-> Returns(elementsOf(r.heap, r.ret))])
    /\ UNCHANGED <<calcVars, rateVars, catVars, transformed, csvVars, chartVars,
                   explVars, csvList, notPureVars>>

\* TaxCalculator.calculateAllFunds(funds, userProfile)
CallCalculateAllFunds ==
    /\ Len(calls) < MaxCalls
    /\ \E r \in {calculateAllFundsOn(heap, FundsRef, userProfile)} :
          /\ heap' = r.heap
          /\ calls' = Append(calls,
                 [fn |-> "calculateAllFunds",
                  ret |-> IF r.ret.kind = "throw" THEN 0 ELSE r.ret.value,
                  out |-> IF r.ret.kind = "throw" THEN Throws
                          ELSE Returns(elementsOf(r.heap, r.ret.value))])
    /\ UNCHANGED <<calcVars, rateVars, catVars, transformed, csvVars, chartVars,
                   explVars, csvList, notPureVars>>

\* categorizeFund(row)
CallCategorizeFund ==
    /\ Len(calls) < MaxCalls
    /\ calls' = Append(calls, [fn |-> "categorizeFund", ret |-> 0,
                               out |-> Returns(categorizeFund(row))])
    /\ UNCHANGED <<calcVars, rateVars, catVars, transformed, csvVars, chartVars,
                   explVars, csvList, heap, notPureVars>>

\* TaxCalculator.calculateTaxEquivalentYield(funds[0], userProfile): the
\* result object is new
CallCalculateTaxEquivalentYield ==
    /\ Len(calls) < MaxCalls
    /\ Len(heap.arrays[FundsRef]) > 0
    /\ \E r \in {calculateTaxEquivalentYield(elementsOf(heap, FundsRef)[1], userProfile)} :
          /\ heap' = IF r.kind = "throw" THEN heap ELSE newObjects(heap, << r.value >>)
          /\ calls' = Append(calls, [fn |-> "calculateTaxEquivalentYield", ret |-> 0,
                                     out |-> r])
    /\ UNCHANGED <<calcVars, rateVars, catVars, transformed, csvVars, chartVars,
                   explVars, csvList, notPureVars>>

NextPure ==
    \/ CallSortCsvFilesByDate
    \/ CallCalculateAllFunds
    \/ CallCategorizeFund
    \/ CallCalculateTaxEquivalentYield

SpecPure == InitPure /\ [][NextPure]_vars

(***************************************************************************)
(* Claims on purity and on sortCsvFilesByDate                              *)
(***************************************************************************)
\* the calls that return an array
ArrayCalls == {"sortCsvFilesByDate", "calculateAllFunds"}

\* the array csvList and the array funds hold the objects they held at
\* first, in the same order, and those objects have the fields they had
InputsUntouched ==
    /\ heap.arrays[CsvListRef] = [i \in 1..Len(csvList) |-> i]
    /\ heap.arrays[FundsRef] = [i \in 1..Len(funds) |-> Len(csvList) + i]
    /\ SubSeq(heap.objects, 1, Len(csvList) + Len(funds)) = csvList \o funds

\* every array returned is none of the input arrays and none returned before
ReturnsNewArrays ==
    \A i \in 1..Len(calls) :
        (calls[i].fn \in ArrayCalls /\ calls[i].out.kind = "return") =>
            /\ calls[i].ret \notin {CsvListRef, FundsRef}
            /\ \A j \in 1..(i - 1) : calls[j].ret # calls[i].ret

\* two calls of a function (the inputs are the same throughout) have the same outcome
SameOutputTwice ==
    \A i, j \in 1..Len(calls) : calls[i].fn = calls[j].fn => calls[i].out = calls[j].out

SortCalls == {i \in 1..Len(calls) : calls[i].fn = "sortCsvFilesByDate"}

\* refs holds each reference of among as often as among does
IsRearrangement(refs, among) ==
    /\ Len(refs) = Len(among)
    /\ \A o \in {among[i] : i \in 1..Len(among)} :
          Cardinality({i \in 1..Len(refs) : refs[i] = o})
              = Cardinality({i \in 1..Len(among) : among[i] = o})

\* C23: sortCsvFilesByDate(csvList) returns a permutation of its input
\* ordered by calendar date newest first, comparing the MM-DD-YYYY dates as
\* (year, month, day) and not as strings, so that the first element is a
\* file with the latest date.
C23_NewestFirstPermutation ==
    \A c \in SortCalls :
        LET sorted == calls[c].out.value
        IN  /\ IsRearrangement(heap.arrays[calls[c].ret], heap.arrays[CsvListRef])
            /\ \A i, j \in 1..Len(sorted) :
                  i < j => CalendarKey(sorted[i].date) >= CalendarKey(sorted[j].date)
            /\ \A i \in 1..Len(sorted) :
                  CalendarKey(sorted[1].date) >= CalendarKey(csvList[i].date)

\* the list of the unit test came out as 01-13-2026, 12-31-2025, 12-22-2025,
\* which as strings are in ascending order
C23_Witness ==
    /\ SortCalls # {}
    /\ Len(csvList) = 3
    /\ csvList[1].date = << "1", "2", "-", "2", "2", "-", "2", "0", "2", "5" >>
    /\ csvList[2].date = << "0", "1", "-", "1", "3", "-", "2", "0", "2", "6" >>
    /\ csvList[3].date = << "1", "2", "-", "3", "1", "-", "2", "0", "2", "5" >>
    /\ \A c \in SortCalls :
          /\ calls[c].out.value[1].date = << "0", "1", "-", "1", "3", "-", "2", "0", "2", "6" >>
          /\ calls[c].out.value[2].date = << "1", "2", "-", "3", "1", "-", "2", "0", "2", "5" >>
          /\ calls[c].out.value[3].date = << "1", "2", "-", "2", "2", "-", "2", "0", "2", "5" >>

(***************************************************************************)
(* Chart data points: transformRowsForChart, and aggregateChartData on     *)
(* JavaScript numbers                                                      *)
(***************************************************************************)
\* the most rows in an input of SpecChartRows
MaxChartRows == 2

\* the variables of the calculator, the categorizer, the CSV parser, the
\* chart aggregation and the explanation
coreVars == <<calcVars, rateVars, catVars, transformed, csvVars, chartVars, explVars>>

\* none of them is in use
CoreIdle ==
    /\ userProfile = DefaultProfile
    /\ funds = << >>
    /\ results = NotCalled
    /\ resultOrder = << >>
    /\ engineResults = NotCalled
    /\ engineOrder = << >>
    /\ rateArgs = [state |-> "MO"]
    /\ rateRet = NoRateCall
    /\ row = EmptyRow
    /\ categorized = NotCalled
    /\ transformed = NotCalled
    /\ line = << >>
    /\ fields = NotCalled
    /\ csvText = Null
    /\ parsed = NotCalled
    /\ dataPoints = << >>
    /\ aggregated = NotCalled
    /\ topFund = NotCalled
    /\ explanation = NotCalled

\* a || b on strings: the empty string (and undefined) is falsy
orText(a, b) == IF a # << >> THEN a ELSE b

\* a + b of fractions
RatAdd(a, b) == Rat(a.num * b.den + b.num * a.den, a.den * b.den)

\* a + b of JavaScript numbers
addNumbers(a, b) ==
    IF a = NaN \/ b = NaN THEN NaN
    ELSE IF a.kind = "Infinity" /\ b.kind = "Infinity"
    THEN (IF a.negative = b.negative THEN a ELSE NaN)
    ELSE IF a.kind = "Infinity" THEN a
    ELSE IF b.kind = "Infinity" THEN b
    ELSE Number(RatAdd(a.value, b.value))

\* a - b of JavaScript numbers
subtractNumbers(a, b) ==
    addNumbers(a, IF b = NaN THEN NaN
                  ELSE IF b.kind = "Infinity" THEN InfiniteNumber(~b.negative)
                  ELSE Number(Rat(-b.value.num, b.value.den)))

\* a / n of a JavaScript number and a positive integer
divideNumber(a, n) ==
    IF a.kind = "number" THEN Number(Rat(a.value.num, a.value.den * n)) ELSE a

\* the data point of a row; its netYield is a JavaScript number
chartPointOf(r, dateStr) ==
    LET yieldStr == orText(orEmpty(r, "7-Day Yield (with waivers)"),
                           orText(orEmpty(r, "7DayYieldWithWaivers"), << "0" >>))
        fundName == orText(orEmpty(r, "Fund Name"), orText(orEmpty(r, "FundName"), << >>))
        csvCategory == orText(orEmpty(r, "Category"), << >>)
    IN  [category |-> getFundCategory(fundName, csvCategory),
         fundName |-> fundName,
         date |-> dateStr,
         netYield |-> parseFloat(removeFirst(yieldStr, "%"))]

transformRowsForChart(rows, dateStr) ==
    [i \in 1..Len(rows) |-> chartPointOf(rows[i], dateStr)]

\* entries.reduce((acc, curr) => acc + curr.netYield, 0) on JavaScript numbers
RECURSIVE sumNumbers(_)
sumNumbers(entries) ==
    IF entries = << >> THEN Zero
    ELSE addNumbers(sumNumbers(SubSeq(entries, 1, Len(entries) - 1)),
                    entries[Len(entries)].netYield)

\* the slot of a category at a date, for data points whose netYield is a
\* JavaScript number
averageNumberAt(points, category, date) ==
    LET Matches(d) == d.category = category /\ d.date = date
        entries == SelectSeq(points, Matches)
    IN  IF Len(entries) = 0 THEN Null
        ELSE divideNumber(sumNumbers(entries), Len(entries))

\* aggregateChartData for data points whose netYield is a JavaScript number
aggregateChartNumbers(points) ==
    IF Len(points) = 0 THEN [dates |-> << >>, categoryAverages |-> EmptyRow]
    ELSE LET distinct == uniqueFrom([i \in 1..Len(points) |-> points[i].date], 1, << >>)
             dates == sortDates(distinct, Len(distinct))
             categories == {points[i].category : i \in 1..Len(points)}
         IN  [dates |-> dates,
              categoryAverages |->
                  [c \in categories |->
                      [i \in 1..Len(dates) |-> averageNumberAt(points, c, dates[i])]]]

(***************************************************************************)
(* SpecChartRows: the rows of a snapshot are turned into data points,      *)
(* which are then aggregated                                               *)
(***************************************************************************)
\* cells of the yield column: a yield, the scraper's placeholder for a yield
\* that was not found, and other texts
ChartYieldTexts ==
    { << >>, << "4", ".", "5", "2", "%" >>, << "3", ".", "8", "9", "%" >>, << "-", "-" >>, << "N", "/", "A" >>, << "0", ".", "0", "0", "%" >>, << "I", "n", "f", "i", "n", "i", "t", "y" >> }

\* rows of a snapshot, from which a column may be missing
ChartRowSet ==
    { y @@ e @@ n :
        y \in Column("7-Day Yield (with waivers)", ChartYieldTexts),
        e \in Column("Net Expense Ratio", { << "0", ".", "3", "4", "%" >> }),
        n \in Column("Fund Name", { << "S", "c", "h", "w", "a", "b", " ", "M", "u", "n", "i", "c", "i", "p", "a", "l", " ", "M", "o", "n", "e", "y", " ", "F", "u", "n", "d" >> }) }
    \cup
    { y @@ z @@ c :
        y \in Column("7-Day Yield (with waivers)", { << >> }),
        z \in Column("7DayYieldWithWaivers", { << "4", ".", "1", "0", "%" >> }),
        c \in Column("Category", { << "T", "r", "e", "a", "s", "u", "r", "y", " ", "M", "o", "n", "e", "y", " ", "F", "u", "n", "d", "s" >> }) }

InitChartRows ==
    /\ CoreIdle
    /\ NotRowsIdle
    /\ chartRows \in UNION { [1..n -> ChartRowSet] : n \in 0..MaxChartRows }
    /\ chartDate \in { << "1", "2", "-", "3", "1", "-", "2", "0", "2", "5" >>, << "0", "1", "-", "1", "3", "-", "2", "0", "2", "6" >> }
    /\ chartData = NotCalled
    /\ chartSeries = NotCalled

\* const points = DataUtils.transformRowsForChart(rows, fileInfo.date)
TransformRowsForChart ==
    /\ chartData = NotCalled
    /\ chartData' = Returns(transformRowsForChart(chartRows, chartDate))
    /\ UNCHANGED <<coreVars, notRowsVars, chartRows, chartDate, chartSeries>>

\* updateChart: DataUtils.aggregateChartData(historicalData), which is not
\* called without data points
AggregateHistoricalData ==
    /\ chartData.kind = "return"
    /\ Len(chartData.value) > 0
    /\ chartSeries = NotCalled
    /\ chartSeries' = Returns(aggregateChartNumbers(chartData.value))
    /\ UNCHANGED <<coreVars, notRowsVars, chartRows, chartDate, chartData>>

NextChartRows == TransformRowsForChart \/ AggregateHistoricalData

SpecChartRows == InitChartRows /\ [][NextChartRows]_vars

(***************************************************************************)
(* Claims on the chart data points                                         *)
(***************************************************************************)
\* the net yield of the fund of a row: grossYield - expenseRatio of its fund object
NetYieldOfRow(r) ==
    subtractNumbers(transformRowToFund(r).grossYield, transformRowToFund(r).expenseRatio)

\* C24: every chart data point produced by transformRowsForChart for a row
\* carries netYield equal to that fund's net yield, the row's gross 7-day
\* yield minus its expense ratio.
C24_ChartPointsCarryNetYield ==
    chartData.kind = "return" =>
        \A i \in 1..Len(chartRows) :
            chartData.value[i].netYield = NetYieldOfRow(chartRows[i])

IsFinite(x) == x.kind = "number"

\* C26: every netYield produced by transformRowsForChart and every non-null
\* average produced by aggregateChartData is a finite number, for any parsed
\* CSV rows, including rows whose yield cell is missing, empty or a
\* placeholder such as '--'.
C26_ChartNumbersFinite ==
    /\ chartData.kind = "return" =>
          \A i \in 1..Len(chartData.value) : IsFinite(chartData.value[i].netYield)
    /\ chartSeries.kind = "return" =>
          \A c \in DOMAIN chartSeries.value.categoryAverages :
              \A i \in 1..Len(chartSeries.value.dates) :
                  LET slot == chartSeries.value.categoryAverages[c][i]
                  IN  slot # Null => IsFinite(slot)

(***************************************************************************)
(* The app: loadFundsData, calculateAndDisplay, handleProfileSubmit,       *)
(* handleRefresh and handleSort on the state object and the results table  *)
(***************************************************************************)
\* the most funds in a loaded fund list
MaxAppFunds == 2

\* the most calls of loadFundsData in flight (init and a refresh)
MaxLoads == 2

\* a taxable, a treasury and a municipal fund
AppFunds ==
    {f \in FundUniverse : f.category \in {"taxable", "treasury", "municipal"}}

\* the fund lists a load may bring, the empty one included
AppFundLists == UNION { [1..n -> AppFunds] : n \in 0..MaxAppFunds }

\* the profiles the form may submit
AppProfiles == {DefaultProfile, [income |-> 0, filingStatus |-> "married", state |-> "CA"]}

\* the sortable columns of the table that hold numbers
SortColumns == {"taxEquivalentYield", "netYield", "expenseRatio"}

\* a[col] for a sortable column, as a fraction
columnValue(r, col) ==
    IF col = "taxEquivalentYield" THEN r.taxEquivalentYield ELSE Rat(r[col], 1)

\* the comparator of handleSort; it never returns 0
sortComparator(a, b, col, direction) ==
    IF direction = "asc"
    THEN (IF RatLess(columnValue(b, col), columnValue(a, col)) THEN 1 ELSE -1)
    ELSE (IF RatLess(columnValue(a, col), columnValue(b, col)) THEN 1 ELSE -1)

\* the arrangements of rs that Array.prototype.sort may leave with that
\* comparator: the comparator is not consistent (both sortComparator(a, b)
\* and sortComparator(b, a) are -1 for equal values), so equal values come
\* in an order the engine chooses; unequal values come in the order asked for
sortedArrangements(rs, col, direction) ==
    LET n == Len(rs)
        perms == {p \in [1..n -> 1..n] : \A i, j \in 1..n : i # j => p[i] # p[j]}
        Ordered(p) ==
            \A i, j \in 1..n :
                (i < j /\ columnValue(rs[p[i]], col) # columnValue(rs[p[j]], col)) =>
                    sortComparator(rs[p[i]], rs[p[j]], col, direction) < 0
    IN  {[i \in 1..n |-> rs[p[i]]] : p \in {q \in perms : Ordered(q)}}

\* the state object of the app as it is declared
InitialAppState ==
    [funds |-> << >>,
     calculatedResults |-> << >>,
     userProfile |-> DefaultProfile,
     sortColumn |-> "taxEquivalentYield",
     sortDirection |-> "desc"]

\* the statements of calculateAndDisplay after the call of calculateAllFunds,
\* whose outcome is r
displayResults(s, rows, r) ==
    IF r.kind = "throw" THEN [threw |-> TRUE, state |-> s, rows |-> rows]
    ELSE [threw |-> FALSE,
          state |-> [s EXCEPT !.calculatedResults = r.value],
          rows |-> r.value]

\* calculateAndDisplay on state s and table rows: returns at once without
\* funds; else stores the results and displays them (displayResultsTable
\* marks the first row as top-result)
calculateAndDisplay(s, rows) ==
    IF Len(s.funds) = 0 THEN [threw |-> FALSE, state |-> s, rows |-> rows]
    ELSE displayResults(s, rows, calculateAllFunds(s.funds, s.userProfile).out)

(***************************************************************************)
(* SpecApp: the handlers of the app in any order                           *)
(***************************************************************************)
InitApp ==
    /\ CoreIdle
    /\ NotAppIdle
    /\ app = InitialAppState
    /\ tableRows = << >>
    /\ loadsInFlight = 0

\* init or handleRefresh up to `await loadFundsData()`: a load starts
BeginLoad ==
    /\ loadsInFlight < MaxLoads
    /\ loadsInFlight' = loadsInFlight + 1
    /\ UNCHANGED <<coreVars, notAppVars, app, tableRows>>

\* loadFundsData returns with all funds of the newest CSV (none, when it has
\* no data lines), and the caller goes on to calculateAndDisplay
LoadSucceeds ==
    /\ loadsInFlight > 0
    /\ \E loaded \in AppFundLists :
          \E r \in {calculateAndDisplay([app EXCEPT !.funds = loaded], tableRows)} :
              /\ app' = r.state
              /\ tableRows' = r.rows
    /\ loadsInFlight' = loadsInFlight - 1
    /\ UNCHANGED <<coreVars, notAppVars>>

\* loadFundsData catches an error (no CSV list, a fetch that fails) and
\* returns; the caller goes on to calculateAndDisplay
LoadFails ==
    /\ loadsInFlight > 0
    /\ \E r \in {calculateAndDisplay(app, tableRows)} :
          /\ app' = r.state
          /\ tableRows' = r.rows
    /\ loadsInFlight' = loadsInFlight - 1
    /\ UNCHANGED <<coreVars, notAppVars>>

HandleProfileSubmit ==
    /\ \E profile \in AppProfiles :
          \E r \in {calculateAndDisplay([app EXCEPT !.userProfile = profile], tableRows)} :
              /\ app' = r.state
              /\ tableRows' = r.rows
    /\ UNCHANGED <<coreVars, notAppVars, loadsInFlight>>

\* a click on the header of column col
HandleSort ==
    /\ \E col \in SortColumns :
          LET direction == IF app.sortColumn = col /\ app.sortDirection = "desc"
                           THEN "asc" ELSE "desc"
          IN  \E sorted \in sortedArrangements(app.calculatedResults, col, direction) :
                  /\ app' = [app EXCEPT !.sortDirection = direction,
                                        !.sortColumn = col,
                                        !.calculatedResults = sorted]
                  /\ tableRows' = sorted
    /\ UNCHANGED <<coreVars, notAppVars, loadsInFlight>>

NextApp ==
    \/ BeginLoad
    \/ LoadSucceeds
    \/ LoadFails
    \/ HandleProfileSubmit
    \/ HandleSort

SpecApp == InitApp /\ [][NextApp]_vars

(***************************************************************************)
(* Claims on the app                                                       *)
(***************************************************************************)
\* C25: in the results table the row marked as the top result is always a
\* fund with the highest taxEquivalentYield among the displayed results,
\* after any sequence of calculateAndDisplay (load, refresh, profile submit)
\* and handleSort (any column, either direction).
C25_TopRowHasHighestYield ==
    \A i \in 1..Len(tableRows) :
        ~RatLess(tableRows[1].taxEquivalentYield, tableRows[i].taxEquivalentYield)

\* the elements of a sequence, each with the number of times it occurs
Occurrences(rs) ==
    [x \in {rs[i] : i \in 1..Len(rs)} |-> Cardinality({i \in 1..Len(rs) : rs[i] = x})]

\* C27: whenever no load or refresh is in flight, state.calculatedResults
\* holds exactly the results of calculateAllFunds for the current
\* state.funds and the current state.userProfile, in any order, after any
\* sequence of loadFundsData (succeeding, failing, or returning zero funds),
\* handleRefresh and handleProfileSubmit; results of a fund list loaded
\* before are never left on display.
C27_ResultsMatchFundsAndProfile ==
    loadsInFlight = 0 =>
        LET expected == calculateAllFunds(app.funds, app.userProfile).out.value
        IN  /\ Occurrences(app.calculatedResults) = Occurrences(expected)
            /\ Occurrences(tableRows) = Occurrences(expected)

(***************************************************************************)
(* The server: fundDataCache, isCacheValid, getFundData, GET /api/funds    *)
(* and POST /api/refresh.  A request is suspended at each await of         *)
(* getFundData, where other requests may run.                              *)
(***************************************************************************)
\* the most requests in a behaviour of SpecServer
MaxRequests == 2

\* the most steps of the clock
MaxTicks == 2

\* the funds in a batch that scrapeFunds returns
BatchSize == 1

\* one step of the clock: three hours, in milliseconds
TickMs == 10800000

\* parseInt(process.env.CACHE_DURATION) || 21600, in seconds
ttl == 21600

\* the array of funds that call n of scraper.scrapeFunds returned
Scraped(n) == [kind |-> "funds", batch |-> n]

\* a number of milliseconds
Millis(t) == [kind |-> "number", ms |-> t]

\* !x for a value that is null, an array or a number
falsy(x) == x = Null \/ x = Millis(0)

\* mutant of isCacheValid: the age is not looked at
isCacheValid_noExpiry(c, now) == ~(falsy(c.data) \/ falsy(c.timestamp))

isCacheValid(c, now) ==
    IF falsy(c.data) \/ falsy(c.timestamp) THEN FALSE
    ELSE (now - c.timestamp.ms) \div 1000 < ttl

\* a request that has just been received, at getFundData's first line; c is
\* the cache then (after the clearing of POST /api/refresh)
\*   pc        "scraping": awaits scraper.scrapeFunds();
\*             "inserting": in the loop over the funds; "done": has responded
\*   batch     the batch its scrape returned (0: none)
\*   inserted  the funds of the batch inserted so far
\*   response  [from |-> "cache" | "scrape", data |-> batch], [from |->
\*             "database"] or [from |-> "error"]
\*   cacheAtCall, timeAtCall, inFlightAtCall, cacheAtReturn: ghosts
newRequest(route, c, now, inFlight, n) ==
    IF isCacheValid(c, now)
    THEN [route |-> route, pc |-> "done", scrape |-> 0, batch |-> 0, inserted |-> 0,
          response |-> [from |-> "cache", data |-> c.data],
          cacheAtCall |-> c, timeAtCall |-> now, inFlightAtCall |-> inFlight,
          cacheAtReturn |-> c]
    ELSE [route |-> route, pc |-> "scraping", scrape |-> n + 1, batch |-> 0, inserted |-> 0,
          response |-> Null,
          cacheAtCall |-> c, timeAtCall |-> now, inFlightAtCall |-> inFlight,
          cacheAtReturn |-> Null]

\* the requests that have not responded yet
InFlight == {i \in 1..Len(requests) : requests[i].pc # "done"}

InitServer ==
    /\ CoreIdle
    /\ NotServerIdle
    /\ fundDataCache = [data |-> Null, timestamp |-> Null]
    /\ clock = TickMs
    /\ requests = << >>
    /\ scrapeCount = 0
    /\ dbRows = {}

\* time passes
Tick ==
    /\ clock < TickMs * (1 + MaxTicks)
    /\ clock' = clock + TickMs
    /\ UNCHANGED <<coreVars, notServerVars, fundDataCache, requests, scrapeCount, dbRows>>

\* GET /api/funds: getFundData up to its return of the cached data or to its
\* await of scraper.scrapeFunds()
GetFunds ==
    /\ Len(requests) < MaxRequests
    /\ LET r == newRequest("funds", fundDataCache, clock, InFlight, scrapeCount)
       IN  /\ requests' = Append(requests, r)
           /\ scrapeCount' = IF r.pc = "scraping" THEN scrapeCount + 1 ELSE scrapeCount
    /\ UNCHANGED <<coreVars, notServerVars, fundDataCache, clock, dbRows>>

\* POST /api/refresh: the cache is cleared, then getFundData as above
PostRefresh ==
    /\ Len(requests) < MaxRequests
    /\ LET cleared == [data |-> Null, timestamp |-> Null]
           r == newRequest("refresh", cleared, clock, InFlight, scrapeCount)
       IN  /\ fundDataCache' = cleared
           /\ requests' = Append(requests, r)
           /\ scrapeCount' = IF r.pc = "scraping" THEN scrapeCount + 1 ELSE scrapeCount
    /\ UNCHANGED <<coreVars, notServerVars, clock, dbRows>>

\* scraper.scrapeFunds() returns its batch to request i, which inserts the
\* first fund and awaits
ScrapeReturns ==
    /\ \E i \in 1..Len(requests) :
          /\ requests[i].pc = "scraping"
          /\ requests' = [requests EXCEPT ![i].pc = "inserting",
                                          ![i].batch = requests[i].scrape,
                                          ![i].inserted = 1]
          /\ dbRows' = dbRows \cup {[batch |-> requests[i].scrape, fund |-> 1]}
    /\ UNCHANGED <<coreVars, notServerVars, fundDataCache, clock, scrapeCount>>

\* request i goes on after an await in the loop: it inserts the next fund,
\* or, after the last one, updates the cache and returns the batch
ContinueInserting ==
    /\ \E i \in 1..Len(requests) :
          /\ requests[i].pc = "inserting"
          /\ IF requests[i].inserted < BatchSize
             THEN /\ requests' = [requests EXCEPT ![i].inserted = @ + 1]
                  /\ dbRows' = dbRows \cup {[batch |-> requests[i].batch,
                                                fund |-> requests[i].inserted + 1]}
                  /\ UNCHANGED fundDataCache
             ELSE LET updated == [data |-> Scraped(requests[i].batch), timestamp |-> Millis(clock)]
                  IN  /\ fundDataCache' = updated
                      /\ requests' = [requests EXCEPT
                             ![i].pc = "done",
                             ![i].response = [from |-> "scrape", data |-> Scraped(requests[i].batch)],
                             ![i].cacheAtReturn = updated]
                      /\ UNCHANGED dbRows
    /\ UNCHANGED <<coreVars, notServerVars, clock, scrapeCount>>

\* database.insertFundYield throws in request i, at the first fund (when
\* the scrape returns) or at a later one: the catch block answers
\* with the latest rows of the database, or rethrows when there are none;
\* the cache is not updated
InsertThrows ==
    /\ \E i \in 1..Len(requests) :
          /\ requests[i].pc # "done"
          /\ requests[i].inserted < BatchSize
          /\ requests' = [requests EXCEPT
                 ![i].pc = "done",
                 ![i].batch = requests[i].scrape,
                 ![i].response = IF dbRows # {} THEN [from |-> "database"]
                                 ELSE [from |-> "error"],
                 ![i].cacheAtReturn = fundDataCache]
    /\ UNCHANGED <<coreVars, notServerVars, fundDataCache, clock, scrapeCount, dbRows>>

NextServer ==
    \/ Tick
    \/ GetFunds
    \/ PostRefresh
    \/ ScrapeReturns
    \/ ContinueInserting
    \/ InsertThrows

SpecServer == InitServer /\ [][NextServer]_vars

(***************************************************************************)
(* Claims on the cache of the server                                       *)
(***************************************************************************)
\* the cache holds no data or its age is at least the TTL
CacheInvalid(c, now) ==
    \/ c.data = Null
    \/ c.timestamp = Null
    \/ (now - c.timestamp.ms) \div 1000 >= ttl

\* getFundData scrapes exactly when the cache was invalid at its call, and a
\* GET /api/funds at a valid cache answers with the cached data
ScrapesIffInvalid ==
    \A i \in 1..Len(requests) :
        LET r == requests[i]
        IN  /\ (r.scrape > 0) <=> CacheInvalid(r.cacheAtCall, r.timeAtCall)
            /\ r.scrape = 0 =>
                  /\ r.route = "funds"
                  /\ r.pc = "done"
                  /\ r.inserted = 0
                  /\ r.response = [from |-> "cache", data |-> r.cacheAtCall.data]
            /\ r.route = "refresh" =>
                  /\ r.cacheAtCall = [data |-> Null, timestamp |-> Null]
                  /\ r.scrape > 0

\* the batch of request r was inserted whole and was the cache when r answered
ScrapeBecameCache(r) ==
    /\ r.inserted = BatchSize
    /\ r.response = [from |-> "scrape", data |-> Scraped(r.scrape)]
    /\ r.cacheAtReturn.data = Scraped(r.scrape)
    /\ r.cacheAtReturn.timestamp # Null

Overlap(i, j) == i < j /\ i \in requests[j].inFlightAtCall

\* C29: at most one scrape is in flight at any time, and requests that
\* overlap while the cache is invalid do not each call scraper.scrapeFunds
\* and each insert the funds of their own batch.
C29_OneScrapeInFlight ==
    /\ Cardinality({i \in 1..Len(requests) : requests[i].pc = "scraping"}) <= 1
    /\ \A i, j \in 1..Len(requests) :
          Overlap(i, j) => ~(requests[i].scrape > 0 /\ requests[j].scrape > 0)
    /\ \A i, j \in 1..Len(requests) :
          Overlap(i, j) => ~(requests[i].inserted > 0 /\ requests[j].inserted > 0)

(***************************************************************************)
(* Claims on the range of the rates                                        *)
(***************************************************************************)
\* 0 <= rate < 1 for a marginal rate
RateInRange(rate) == 0 <= rate /\ rate < RateUnit

\* 0 <= effectiveTaxRate < 1
EffectiveInRange(rate) == 0 <= rate /\ rate < EffUnit

\* the filing statuses for which the frontend resolves a rate at all
ResolvedStatuses ==
    {s \in FilingStatuses : calculateFederalMarginalRate(0, s).kind = "return"}

\* frontend: every rate from the tables is in range, and so is the
\* effective rate of every category at these rates
TableRatesInRange ==
    \A income \in Incomes, s \in ResolvedStatuses, st \in States :
        LET federalRate == calculateFederalMarginalRate(income, s).value
            stateRate == calculateStateMarginalRate(st)
        IN  /\ RateInRange(federalRate)
            /\ RateInRange(stateRate)
            /\ \A c \in Categories :
                  EffectiveInRange(getEffectiveTaxRate(c, federalRate, stateRate))

\* backend: the same
Engine_TableRatesInRange ==
    \A income \in Incomes, s \in ResolvedStatuses, st \in States :
        LET federalRate == Engine_calculateFederalMarginalRate(income, s).value
            stateRate == Engine_calculateStateMarginalRate(st)
        IN  /\ RateInRange(federalRate)
            /\ RateInRange(stateRate)
            /\ \A c \in Categories :
                  EffectiveInRange(Engine_getEffectiveTaxRate(c, federalRate, stateRate))

\* the federal marginal rate does not decrease when the income grows
FederalRateMonotonic ==
    \A s \in ResolvedStatuses, lo \in Incomes, hi \in Incomes :
        lo <= hi =>
            /\ calculateFederalMarginalRate(lo, s).value
                 <= calculateFederalMarginalRate(hi, s).value
            /\ Engine_calculateFederalMarginalRate(lo, s).value
                 <= Engine_calculateFederalMarginalRate(hi, s).value

====
